---------------------------- MODULE Spec2Model ----------------------------
(***************************************************************************)
(* cchange: temperature anomalies rendered as markers on a globe.          *)
(*                                                                         *)
(* Two state machines are modelled:                                        *)
(*   - the scene (src/cChange.ts): the dataset, the current year, the      *)
(*     parsed markers, the meshes attached to earthClouds, the geometry    *)
(*     and material pools, initWithProgress, selectYear and the playback   *)
(*     timeline of onPlayClick;                                            *)
(*   - the worker manager (src/src/workers/ClimateDataWorkerManager.ts)    *)
(*     with the worker it talks to (src/unnamed/part_002).                 *)
(* The loaders (loadData of src/cChange.ts and DataLoader of               *)
(* src/src/test/dataLoader.test.ts) are functions of the outcome of fetch. *)
(*                                                                         *)
(* Numbers: latitudes and longitudes are whole degrees, a delta is an      *)
(* integer number of tenths of a degree (5 stands for 0.5).                *)
(***************************************************************************)
EXTENDS Integers, Sequences, FiniteSets, TLC

\* ------------------------------------------------------------------ bounds
\* Number of points of the large decade; above MAX_POOL_SIZE so that the
\* pools reach their cap when that batch is torn down.
BigN == 101
\* Manual decade selections (clicks, Enter/Space on an option) in one run.
MaxClicks == 2

\* Calls of processClimateData / calculateStatistics on the manager.
MaxCalls == 3

\* Markers created one at a time.
MaxMarkers == 2

\* Properties of a JSON object given to loadData.
MaxKeys == 3

\* Items of an array given to loadTemperatureData.
MaxItems == 3

\* ------------------------------------------------------- program constants
MAX_POOL_SIZE == 100

years == <<"1910", "1920", "1930", "1940", "1980", "1990", "2000", "2010">>

\* The value of a variable that has not been assigned (year before init).
Undefined == "undefined"

\* ------------------------------------------------------------------ helpers
Max(a, b) == IF a >= b THEN a ELSE b

Min(a, b) == IF a <= b THEN a ELSE b

Abs(x) == IF x < 0 THEN -x ELSE x

Range(s) == {s[i] : i \in 1..Len(s)}

\* Array.prototype.indexOf on the years array, 0-based, -1 when absent.
IndexOf(arr, x) ==
  IF \E i \in 1..Len(arr) : arr[i] = x
  THEN (CHOOSE i \in 1..Len(arr) : arr[i] = x /\ \A j \in 1..(i-1) : arr[j] # x) - 1
  ELSE -1

\* --------------------------------------------------------------- the dataset
\* A dataset entry [label, samples]: present is FALSE for a null/absent
\* element, hasSamples is FALSE when element [1] is missing.
Entry(label, samples) ==
  [present |-> TRUE, label |-> label, hasSamples |-> TRUE, samples |-> samples]

NoSamplesEntry(label) ==
  [present |-> TRUE, label |-> label, hasSamples |-> FALSE, samples |-> << >>]

NullEntry ==
  [present |-> FALSE, label |-> "", hasSamples |-> FALSE, samples |-> << >>]

\* The example of the specification: three points, one of them zero.
SamplesExample == <<10, 20, 5, -5, 15, -3, 0, 0, 0>>

\* One complete point followed by an incomplete triple.
SamplesTail == <<40, 50, 2, 7>>

\* BigN points, all non-zero, alternating sign.
SamplesBig ==
  [i \in 1..(3 * BigN) |->
     IF i % 3 = 1 THEN ((i \div 3) % 90)
     ELSE IF i % 3 = 2 THEN ((i \div 3) % 180)
     ELSE IF (i \div 3) % 2 = 0 THEN 1 + ((i \div 3) % 9) ELSE -(1 + ((i \div 3) % 9))]

DataFull ==
  << Entry("1910", SamplesExample),
     Entry("1920", SamplesTail),
     Entry("1930", <<0, 0, 0>>),
     NoSamplesEntry("1940"),
     NullEntry,
     Entry("1990", <<-30, 60, -7, 30, -60, 7>>),
     Entry("2000", SamplesExample),
     Entry("2010", << >>) >>

\* A dataset whose first decade is large and whose tail is missing.
DataBig ==
  << Entry("1910", SamplesBig),
     Entry("1920", SamplesExample),
     Entry("1930", SamplesTail) >>

\* What loadData returns when the fetch fails.
DataEmpty == << >>

\* A dataset of two decades with one marker each.
DataShort == <<Entry("1910", SamplesTail), Entry("1920", SamplesTail)>>

\* Datasets whose entries carry labels that are not those of their positions:
\* the pairs of DataShort exchanged, and a dataset of four entries whose labels
\* are out of order, absent or repeated.
DataShuffled ==
  << Entry("1920", SamplesTail),
     Entry("1910", SamplesExample),
     Entry("", <<-30, 60, -7>>),
     Entry("1910", <<0, 0, 0, 5, 6, 7>>) >>

DataReversed == <<Entry("1920", SamplesExample), Entry("1910", SamplesTail)>>

OrderDatasets == {DataFull, DataShort, DataShuffled, DataReversed}

Datasets == {DataFull, DataBig, DataEmpty}

\* ------------------------------------------------------------------ loading
\* A JSON value: an array of items, an object as its properties in insertion
\* order, a string as its characters (each a string whose [0] is itself and
\* whose [1] is undefined), a number, or null.
JArray(items) == [kind |-> "array", items |-> items]

JObject(props) == [kind |-> "object", items |-> props]

JString(chars) ==
  [kind |-> "string", items |-> [i \in 1..Len(chars) |-> NoSamplesEntry(chars[i])]]

JNumber == [kind |-> "number", items |-> << >>]

JNull == [kind |-> "null", items |-> << >>]

\* A property key; index is its value when the key is an array index (a
\* canonical non-negative integer), else -1.
Key(name, index) == [name |-> name, index |-> index]

Prop(key, value) == [key |-> key, value |-> value]

\* The outcome of fetch(url) and of response.json(): fetch rejects, or gives
\* a response with ok and status whose body parses as JSON or does not.
FetchRejected ==
  [fetched |-> FALSE, ok |-> FALSE, status |-> 0, parses |-> FALSE, json |-> JNull]

HttpError(status) ==
  [fetched |-> TRUE, ok |-> FALSE, status |-> status, parses |-> FALSE, json |-> JNull]

NotJson ==
  [fetched |-> TRUE, ok |-> TRUE, status |-> 200, parses |-> FALSE, json |-> JNull]

Payload(json) ==
  [fetched |-> TRUE, ok |-> TRUE, status |-> 200, parses |-> TRUE, json |-> json]

ErrorOf(name, message) == [name |-> name, message |-> message]

NoError == ErrorOf("", "")

\* How a function body ends: by throwing an error or by returning a value.
Throw(error) == [threw |-> TRUE, error |-> error, value |-> << >>]

Return(value) == [threw |-> FALSE, error |-> NoError, value |-> value]

NetworkError == ErrorOf("TypeError", "Failed to fetch")

JsonError == ErrorOf("SyntaxError", "Unexpected token")

StatusError(status) == ErrorOf("Error", "HTTP error! status: " \o ToString(status))

IsIndexProp(p) == p.key.index >= 0

IsNamedProp(p) == p.key.index < 0

RECURSIVE SortByIndex(_)
\* Properties whose keys are array indices, in ascending numeric order.
SortByIndex(ps) ==
  IF ps = << >> THEN << >>
  ELSE LET i == CHOOSE i \in 1..Len(ps) :
                  \A j \in 1..Len(ps) : ps[i].key.index <= ps[j].key.index
       IN <<ps[i]>> \o SortByIndex(SubSeq(ps, 1, i - 1) \o SubSeq(ps, i + 1, Len(ps)))

\* Object.values(v): of an object, the values of the index keys in ascending
\* order, then those of the other keys in insertion order; of a string, its
\* characters; of a number, nothing; of null, a TypeError.
ObjectValues(v) ==
  CASE v.kind = "object" ->
         LET ordered == SortByIndex(SelectSeq(v.items, IsIndexProp))
                          \o SelectSeq(v.items, IsNamedProp)
         IN Return([i \in 1..Len(ordered) |-> ordered[i].value])
    [] v.kind = "string" -> Return(v.items)
    [] v.kind = "number" -> Return(<< >>)
    [] v.kind = "null" ->
         Throw(ErrorOf("TypeError", "Cannot convert undefined or null to object"))
    [] v.kind = "array" -> Return(v.items)

\* loadData without its catch block.
loadDataRethrowing(response) ==
  IF ~response.fetched THEN Throw(NetworkError)
  ELSE IF ~response.ok THEN Throw(StatusError(response.status))
  ELSE IF ~response.parses THEN Throw(JsonError)
  ELSE IF response.json.kind = "array" THEN Return(response.json.items)
  ELSE ObjectValues(response.json)

\* The try block of loadData.
loadDataTry(response) ==
  IF ~response.fetched THEN Throw(NetworkError)
  ELSE IF ~response.ok THEN Throw(StatusError(response.status))
  ELSE IF ~response.parses THEN Throw(JsonError)
  ELSE IF response.json.kind = "array" THEN Return(response.json.items)
  ELSE ObjectValues(response.json)

\* loadData: the catch block returns [].
loadData(response) ==
  LET tried == loadDataTry(response)
  IN IF tried.threw THEN Return(<< >>) ELSE tried

\* A value of an item's field with its typeof.
Typed(type, v) == [type |-> type, v |-> v]

Missing == Typed("undefined", 0)

\* An item of the temperature payload: null, or an object with year and
\* temperature and possibly another field.
NullItem == [isNull |-> TRUE, year |-> Missing, temperature |-> Missing, extra |-> FALSE]

Item(y, tp, extra) == [isNull |-> FALSE, year |-> y, temperature |-> tp, extra |-> extra]

ItemIsValid(item) ==
  /\ ~item.isNull
  /\ item.year.type = "number"
  /\ item.temperature.type = "number"

\* The object the map callback returns for a valid item.
Validated(item) == Item(item.year, item.temperature, FALSE)

\* validateAndParseData dropping the invalid items.
validateSkippingInvalid(rawData) ==
  IF rawData.kind # "array" THEN Throw(ErrorOf("Error", "Data must be an array"))
  ELSE LET kept == SelectSeq(rawData.items, ItemIsValid)
       IN Return([i \in 1..Len(kept) |-> Validated(kept[i])])

\* validateAndParseData: map stops at the first item whose callback throws.
validateAndParseData(rawData) ==
  IF rawData.kind # "array" THEN Throw(ErrorOf("Error", "Data must be an array"))
  ELSE LET items == rawData.items
           bad == {i \in 1..Len(items) : ~ItemIsValid(items[i])}
       IN IF bad = {}
          THEN Return([i \in 1..Len(items) |-> Validated(items[i])])
          ELSE LET first == CHOOSE i \in bad : \A j \in bad : i <= j
               IN IF items[first].isNull
                  THEN Throw(ErrorOf("TypeError",
                               "Cannot read properties of null (reading 'year')"))
                  ELSE Throw(ErrorOf("Error",
                               "Invalid data format at index " \o ToString(first - 1)))

\* DataLoader.loadTemperatureData: the catch block logs and rethrows.
loadTemperatureData(response) ==
  IF ~response.fetched THEN Throw(NetworkError)
  ELSE IF ~response.ok THEN Throw(StatusError(response.status))
  ELSE IF ~response.parses THEN Throw(JsonError)
  ELSE validateAndParseData(response.json)

\* No load so far.
NoLoad == [op |-> "none", response |-> FetchRejected, result |-> Return(<< >>)]

\* ------------------------------------------------------------------- state
VARIABLES
  data,          \* [loaded, entries]: the dataset, not loaded before init
  year,          \* the current year
  markers,       \* the parsed points of the current year
  children,      \* earthClouds.children: the attached meshes, in order
  geometryPool,  \* recycled geometries (ids), a stack
  materialPool,  \* recycled materials (ids), a stack
  matColor,      \* the colour of each material constructed so far, by id
  geomDisposed,  \* geometries on which dispose() was called
  matDisposed,   \* materials on which dispose() was called
  nextGeom,      \* geometries constructed so far
  nextMat,       \* materials constructed so far
  nextMesh,      \* meshes constructed so far
  batchStart,    \* nextMesh when the latest renderAnomalies began
  leaked,        \* meshes detached without exactly one release of each resource
  initPc,        \* initWithProgress: "start", "waiting", "done"
  runs,          \* the playback runs started by onPlayClick
  clicks,        \* manual selections so far
  threw,         \* whether the last handler ended by throwing
  last,          \* the last handler that ran and its input
  loader         \* the last load: the fetch outcome and what the loader made of it

sceneVars ==
  <<data, year, markers, children, geometryPool, materialPool, matColor,
    geomDisposed, matDisposed, nextGeom, nextMat, nextMesh, batchStart, leaked,
    initPc, runs, clicks, threw, last, loader>>

VARIABLES
  worker,              \* this.worker: 0 for null, else the worker's number
  workersMade,         \* workers constructed so far
  processingRequests,  \* Map requestId -> call whose resolve/reject it holds
  statisticsRequests,  \* the same for calculateStatistics
  requestIdCounter,
  calls,               \* the calls made: input, position, promise
  microtasks,          \* calls suspended in "await this.init()", in order
  inbox,               \* messages posted to the live worker, not yet handled
  outbox               \* responses posted by a worker, not yet delivered

mgrVars ==
  <<worker, workersMade, processingRequests, statisticsRequests,
    requestIdCounter, calls, microtasks, inbox, outbox>>

vars == <<sceneVars, mgrVars>>

\* The part of the state the pool and marker functions read and write.
Scene ==
  [children |-> children, geometryPool |-> geometryPool,
   materialPool |-> materialPool, matColor |-> matColor,
   geomDisposed |-> geomDisposed, matDisposed |-> matDisposed,
   nextGeom |-> nextGeom, nextMat |-> nextMat, nextMesh |-> nextMesh,
   batchStart |-> batchStart, leaked |-> leaked]

SetScene(s) ==
  /\ children' = s.children
  /\ geometryPool' = s.geometryPool
  /\ materialPool' = s.materialPool
  /\ matColor' = s.matColor
  /\ geomDisposed' = s.geomDisposed
  /\ matDisposed' = s.matDisposed
  /\ nextGeom' = s.nextGeom
  /\ nextMat' = s.nextMat
  /\ nextMesh' = s.nextMesh
  /\ batchStart' = s.batchStart
  /\ leaked' = s.leaked

\* -------------------------------------------------------------------- parser
\* yearData[i] for a 0-based i: a number, or undefined past the end.
Defined(yearData, i) == i + 1 <= Len(yearData)

\* A turn that pushes nothing for a zero delta either, like the worker's loop.
ParseTurnSkippingZero(yearData, i) ==
  IF ~Defined(yearData, i) \/ ~Defined(yearData, i + 1) \/ ~Defined(yearData, i + 2)
  THEN << >>
  ELSE IF yearData[i + 3] = 0 THEN << >>
  ELSE <<[lat |-> yearData[i + 1], lon |-> yearData[i + 2], delta |-> yearData[i + 3]]>>

\* One turn of the loop of centuryData, at 0-based position i: the point
\* pushed, or nothing when one of the three values is undefined.
ParseTurn(yearData, i) ==
  IF ~Defined(yearData, i) \/ ~Defined(yearData, i + 1) \/ ~Defined(yearData, i + 2)
  THEN << >>
  ELSE <<[lat |-> yearData[i + 1], lon |-> yearData[i + 2], delta |-> yearData[i + 3]]>>

RECURSIVE ParseTurns(_, _, _)
\* The turns lo..hi of the loop (turn k is at position i = 3k), in order. The
\* range is split in halves so that long arrays evaluate in shallow depth.
ParseTurns(yearData, lo, hi) ==
  IF lo > hi THEN << >>
  ELSE IF lo = hi THEN ParseTurn(yearData, 3 * lo)
  ELSE LET mid == (lo + hi) \div 2
       IN ParseTurns(yearData, lo, mid) \o ParseTurns(yearData, mid + 1, hi)

\* for (i = 0; i < yearData.length; i += 3): turns 0 .. ceil(length / 3) - 1.
ParseFrom(yearData) == ParseTurns(yearData, 0, ((Len(yearData) + 2) \div 3) - 1)

\* centuryData reading data[yearIdx][1] without testing data[yearIdx].
centuryDataNoEntryGuard(d, y) ==
  LET yearIdx == IndexOf(years, y) IN
  IF yearIdx = -1 THEN [threw |-> FALSE, output |-> << >>]
  ELSE IF ~d.loaded THEN [threw |-> TRUE, output |-> << >>]
  ELSE IF ~(yearIdx + 1 <= Len(d.entries)) \/ ~d.entries[yearIdx + 1].present
       THEN [threw |-> TRUE, output |-> << >>]
  ELSE IF ~d.entries[yearIdx + 1].hasSamples THEN [threw |-> FALSE, output |-> << >>]
  ELSE [threw |-> FALSE, output |-> ParseFrom(d.entries[yearIdx + 1].samples)]

\* centuryData joining the label to the first entry that carries it.
centuryDataByLabel(d, y) ==
  LET yearIdx == IndexOf(years, y)
      at == {i \in 1..Len(d.entries) : d.entries[i].present /\ d.entries[i].label = y}
  IN
  IF yearIdx = -1 THEN [threw |-> FALSE, output |-> << >>]
  ELSE IF ~d.loaded THEN [threw |-> TRUE, output |-> << >>]
  ELSE IF at = {} THEN [threw |-> FALSE, output |-> << >>]
  ELSE LET i == CHOOSE i \in at : \A j \in at : i <= j IN
       IF ~d.entries[i].hasSamples THEN [threw |-> FALSE, output |-> << >>]
       ELSE [threw |-> FALSE, output |-> ParseFrom(d.entries[i].samples)]

\* centuryData(y) reading dataset d: [threw, output]. It throws when the
\* dataset is not loaded and y is a known year (data[yearIdx] on undefined).
centuryData(d, y) ==
  LET yearIdx == IndexOf(years, y) IN
  IF yearIdx = -1 THEN [threw |-> FALSE, output |-> << >>]
  ELSE IF ~d.loaded THEN [threw |-> TRUE, output |-> << >>]
  ELSE IF ~(yearIdx + 1 <= Len(d.entries)) \/ ~d.entries[yearIdx + 1].present
       THEN [threw |-> FALSE, output |-> << >>]
  ELSE IF ~d.entries[yearIdx + 1].hasSamples THEN [threw |-> FALSE, output |-> << >>]
  ELSE [threw |-> FALSE, output |-> ParseFrom(d.entries[yearIdx + 1].samples)]

\* -------------------------------------------------------------- colour, scale
\* colorVal(x) for x in tenths. The hue is kept as the numerator of a fraction
\* over HueDen = 10000 * 1619:
\*   x > 0: 0.2139 - (x/10 / 1.619) * 0.5 = (3463041 -  500000 x) / HueDen
\*   x < 0: 0.5111 -  x/10 / 1.619        = (8274709 - 1000000 x) / HueDen
\* saturation and lightness are in tenths.
HueDen == 16190000

\* colorVal taking the warm branch at zero as well.
colorValWarmAtZero(x) ==
  IF x >= 0 THEN [kind |-> "hsl", h |-> 3463041 - 500000 * x, s |-> 10, l |-> 5]
  ELSE [kind |-> "hsl", h |-> 8274709 - 1000000 * x, s |-> 10, l |-> 6]

colorVal(x) ==
  IF x > 0 THEN [kind |-> "hsl", h |-> 3463041 - 500000 * x, s |-> 10, l |-> 5]
  ELSE IF x < 0 THEN [kind |-> "hsl", h |-> 8274709 - 1000000 * x, s |-> 10, l |-> 6]
  ELSE [kind |-> "rgb", h |-> 0, s |-> 0, l |-> 10]

\* The scale without its floor.
ScaleYUnfloored(delta) == Abs(delta) * 150

\* mesh.scale.y of addCoord, in tenths: max(|delta| * 150, 0.1).
ScaleY(delta) == Max(Abs(delta) * 150, 1)

\* ------------------------------------------------------ position, rotation
\* Angles are in degrees; Math.cos and Math.sin are computed exactly on the
\* multiples of 30 degrees, a value (a + b*sqrt(3)) / 2 being kept as [a, b].
Surd(a, b) == [a |-> a, b |-> b]

Cos(deg) ==
  LET d == deg % 360
  IN CASE d = 0 -> Surd(2, 0)
       [] d \in {30, 330} -> Surd(0, 1)
       [] d \in {60, 300} -> Surd(1, 0)
       [] d \in {90, 270} -> Surd(0, 0)
       [] d \in {120, 240} -> Surd(-1, 0)
       [] d \in {150, 210} -> Surd(0, -1)
       [] d = 180 -> Surd(-2, 0)

Sin(deg) == Cos(deg - 90)

\* The product of two such values, over 4.
Times(u, v) == Surd(u.a * v.a + 3 * u.b * v.b, u.a * v.b + u.b * v.a)

\* A value over 2 scaled by k.
Scaled(u, k) == Surd(k * u.a, k * u.b)

radius == 10

\* mesh.position.set(...) of addCoord from lat and lon, lon being the negated
\* longitude: each coordinate is (a + b*sqrt(3)) / 4.
MeshPosition(mesh) ==
  [x |-> Scaled(Times(Cos(mesh.lat), Cos(mesh.negLon)), radius),
   y |-> Scaled(Sin(mesh.lat), 2 * radius),
   z |-> Scaled(Times(Cos(mesh.lat), Sin(mesh.negLon)), radius)]

\* mesh.rotation.set(0.0, -lon, lat - Math.PI * 0.5), in degrees.
MeshRotation(mesh) == [x |-> 0, y |-> -mesh.negLon, z |-> mesh.lat - 90]


\* --------------------------------------------------------------------- pools
\* getGeometry reading the top of the pool without popping it.
getGeometryPeek(s) ==
  IF Len(s.geometryPool) > 0
  THEN [s |-> s, g |-> s.geometryPool[Len(s.geometryPool)]]
  ELSE [s |-> [s EXCEPT !.nextGeom = @ + 1], g |-> s.nextGeom + 1]

\* getGeometry: [s, g], the scene after the call and the geometry returned.
getGeometry(s) ==
  IF Len(s.geometryPool) > 0
  THEN [s |-> [s EXCEPT !.geometryPool = SubSeq(@, 1, Len(@) - 1)],
        g |-> s.geometryPool[Len(s.geometryPool)]]
  ELSE [s |-> [s EXCEPT !.nextGeom = @ + 1], g |-> s.nextGeom + 1]

\* returnGeometry without the test of the cap: every geometry is retained.
returnGeometryUncapped(s, geometry) ==
  [s EXCEPT !.geometryPool = Append(@, geometry)]

returnGeometry(s, geometry) ==
  IF Len(s.geometryPool) < MAX_POOL_SIZE
  THEN [s EXCEPT !.geometryPool = Append(@, geometry)]
  ELSE [s EXCEPT !.geomDisposed = @ \cup {geometry}]

\* getMaterial leaving a pooled material with the colour it had.
getMaterialKeepingColor(s, color) ==
  IF Len(s.materialPool) > 0
  THEN [s |-> [s EXCEPT !.materialPool = SubSeq(@, 1, Len(@) - 1)],
        m |-> s.materialPool[Len(s.materialPool)]]
  ELSE [s |-> [s EXCEPT !.nextMat = @ + 1, !.matColor = Append(@, color)],
        m |-> s.nextMat + 1]

\* getMaterial: [s, m]; a pooled material has its colour overwritten.
getMaterial(s, color) ==
  IF Len(s.materialPool) > 0
  THEN LET m == s.materialPool[Len(s.materialPool)] IN
       [s |-> [s EXCEPT !.materialPool = SubSeq(@, 1, Len(@) - 1),
                        !.matColor = [@ EXCEPT ![m] = color]],
        m |-> m]
  ELSE [s |-> [s EXCEPT !.nextMat = @ + 1, !.matColor = Append(@, color)],
        m |-> s.nextMat + 1]

\* returnMaterial without the test of the cap.
returnMaterialUncapped(s, material) ==
  [s EXCEPT !.materialPool = Append(@, material)]

returnMaterial(s, material) ==
  IF Len(s.materialPool) < MAX_POOL_SIZE
  THEN [s EXCEPT !.materialPool = Append(@, material)]
  ELSE [s EXCEPT !.matDisposed = @ \cup {material}]

\* A turn of the loop that returns the material and detaches the child, the
\* call of returnGeometry left out.
ReleaseChildKeepGeometry(s, destroy) ==
  LET child == s.children[destroy]
      s1 == [returnMaterial(s, child.material) EXCEPT !.children[destroy].relM = @ + 1]
      gone == s1.children[destroy]
  IN [s1 EXCEPT !.children = SubSeq(@, 1, destroy - 1) \o SubSeq(@, destroy + 1, Len(@)),
                !.leaked = IF gone.relM = 1 /\ gone.relG = 1 THEN @ ELSE @ \cup {gone.id}]

\* One turn of the loop of removeChildren, for the child at 1-based position
\* destroy: its material and geometry are returned (the mesh counts the
\* calls made for it in relM, relG), then it is detached.
ReleaseChild(s, destroy) ==
  LET child == s.children[destroy]
      s1 == [returnMaterial(s, child.material) EXCEPT !.children[destroy].relM = @ + 1]
      s2 == [returnGeometry(s1, child.geometry) EXCEPT !.children[destroy].relG = @ + 1]
      gone == s2.children[destroy]
  IN [s2 EXCEPT !.children = SubSeq(@, 1, destroy - 1) \o SubSeq(@, destroy + 1, Len(@)),
                !.leaked = IF gone.relM = 1 /\ gone.relG = 1 THEN @ ELSE @ \cup {gone.id}]

RECURSIVE RemoveRange(_, _, _)
\* The turns of the loop of removeChildren for destroy = hi down to lo, in
\* that order. The range is split in halves, the upper half being evaluated
\* before the lower one starts, so that long batches evaluate in shallow depth.
RemoveRange(s, hi, lo) ==
  IF hi < lo THEN s
  ELSE IF hi = lo THEN ReleaseChild(s, hi)
  ELSE LET mid == (lo + hi) \div 2
           upper == RemoveRange(s, hi, mid + 1)
       IN CASE Len(upper.children) >= 0 -> RemoveRange(upper, mid, lo)

\* The loop stopping at destroy > 0: the first child stays attached.
removeChildrenKeepFirst(s) == RemoveRange(s, Len(s.children), 2)

\* removeChildren: destroy runs from children.length - 1 down to 0.
removeChildren(s) == RemoveRange(s, Len(s.children), 1)

\* addCoord using the longitude as given.
addCoordLonAsGiven(s, latitude, longitude, delta) ==
  LET gg == getGeometry(s)
      color == colorVal(delta)
      gm == getMaterial(gg.s, color)
      mesh == [id |-> s.nextMesh + 1, geometry |-> gg.g, material |-> gm.m,
               lat |-> latitude, lon |-> longitude, negLon |-> longitude,
               delta |-> delta, scaleY |-> ScaleY(delta), relG |-> 0, relM |-> 0]
  IN [gm.s EXCEPT !.nextMesh = @ + 1, !.children = Append(@, mesh)]

\* addCoord: one mesh made of a pooled or new geometry and material, attached.
\* negLon is the longitude negated, as used for the position and rotation.
addCoord(s, latitude, longitude, delta) ==
  LET gg == getGeometry(s)
      color == colorVal(delta)
      gm == getMaterial(gg.s, color)
      mesh == [id |-> s.nextMesh + 1, geometry |-> gg.g, material |-> gm.m,
               lat |-> latitude, lon |-> longitude, negLon |-> -longitude,
               delta |-> delta, scaleY |-> ScaleY(delta), relG |-> 0, relM |-> 0]
  IN [gm.s EXCEPT !.nextMesh = @ + 1, !.children = Append(@, mesh)]

NonZero(marker) == marker.delta # 0

RECURSIVE AddAll(_, _, _, _)
\* The forEach of renderAnomalies over the non-zero markers lo..hi, in order
\* (the range is split in halves, the first being evaluated before the second
\* starts, so that long batches evaluate in shallow depth).
AddAll(s, ms, lo, hi) ==
  IF lo > hi THEN s
  ELSE IF lo = hi THEN addCoord(s, ms[lo].lat, ms[lo].lon, ms[lo].delta)
  ELSE LET mid == (lo + hi) \div 2
           first == AddAll(s, ms, lo, mid)
       IN CASE first.nextMesh >= 0 -> AddAll(first, ms, mid + 1, hi)

\* renderAnomalies over the global markers ms.
renderAnomalies(s, ms) ==
  LET nonZeroMarkers == SelectSeq(ms, NonZero)
  IN AddAll([s EXCEPT !.batchStart = s.nextMesh], nonZeroMarkers, 1, Len(nonZeroMarkers))

\* ------------------------------------------------------------------ handlers
\* Progress is counted in sixteenths: two values per decade index, so that
\* consecutive updates can map to the same index and an update can skip one.
ProgressSteps == 2 * Len(years)

NoData == [loaded |-> FALSE, entries |-> << >>]

\* The elements a selection can have as its target: an option (its id is the
\* decade label), the icon or text inside an option (no id, the parent's id
\* is the label), the list itself, and an element carrying an id that is
\* no decade label.
Target(id, parentId) == [id |-> id, parentId |-> parentId]

Targets ==
  { Target("1920", "years-list"), Target("1940", "years-list"),
    Target("", "1930"), Target("years-list", ""), Target("1925", "") }

\* The playback runs of one behaviour: play is pressed once.
PlayRuns == {1}

SceneInit ==
  /\ data = NoData
  /\ year = Undefined
  /\ markers = << >>
  /\ children = << >>
  /\ geometryPool = << >>
  /\ materialPool = << >>
  /\ matColor = << >>
  /\ geomDisposed = {}
  /\ matDisposed = {}
  /\ nextGeom = 0
  /\ nextMat = 0
  /\ nextMesh = 0
  /\ batchStart = 0
  /\ leaked = {}
  /\ initPc = "start"
  /\ runs = << >>
  /\ clicks = 0
  /\ threw = FALSE
  /\ last = [op |-> "none", arg |-> ""]
  /\ loader = NoLoad

\* The tail shared by selectYear and onUpdate, after year was assigned y:
\* removeChildren(); markers = centuryData(year); renderAnomalies().
\* A throw in centuryData leaves the markers as they were and renders nothing.
Refresh(y) ==
  LET s1 == removeChildren(Scene)
      cd == centuryData(data, y)
  IN IF cd.threw
     THEN /\ SetScene(s1)
          /\ markers' = markers
          /\ threw' = TRUE
     ELSE /\ SetScene(renderAnomalies(s1, cd.output))
          /\ markers' = cd.output
          /\ threw' = FALSE

\* initWithProgress up to its second await: data, year and markers are set.
InitLoad(entries) ==
  /\ initPc = "start"
  /\ data' = [loaded |-> TRUE, entries |-> entries]
  /\ year' = "1910"
  /\ markers' = centuryData(data', "1910").output
  /\ initPc' = "waiting"
  /\ threw' = FALSE
  /\ last' = [op |-> "initLoad", arg |-> "1910"]
  /\ UNCHANGED <<children, geometryPool, materialPool, matColor, geomDisposed,
                 matDisposed, nextGeom, nextMat, nextMesh, batchStart, leaked,
                 runs, clicks, mgrVars, loader>>

\* initWithProgress after the timeout: renderAnomalies() on the global markers.
InitRender ==
  /\ initPc = "waiting"
  /\ SetScene(renderAnomalies(Scene, markers))
  /\ initPc' = "done"
  /\ threw' = FALSE
  /\ last' = [op |-> "initRender", arg |-> year]
  /\ UNCHANGED <<data, year, markers, runs, clicks, mgrVars, loader>>

\* The coordinates and anomalies one marker is created from: every anomaly at
\* one place, and one anomaly at every place of the grid.
MarkerDeltas == -12 .. 12

MarkerLats == {-90, -30, 0, 60, 90}

MarkerLons == {-180, -90, -30, 0, 60, 120}

MarkerInputs ==
  {<<0, 0, d>> : d \in MarkerDeltas}
    \cup {<<la, lo, 5>> : la \in MarkerLats, lo \in MarkerLons}

\* addCoord(latitude, longitude, delta) called on its own.
AddMarker(latitude, longitude, delta) ==
  /\ nextMesh < MaxMarkers
  /\ SetScene(addCoord(Scene, latitude, longitude, delta))
  /\ threw' = FALSE
  /\ last' = [op |-> "addCoord", arg |-> ""]
  /\ UNCHANGED <<data, year, markers, initPc, runs, clicks, mgrVars, loader>>

\* The outcomes of fetch('/data.json') handed to loadData: failures, arrays,
\* objects with up to MaxKeys of the keys below in any insertion order, and
\* the other JSON values.
LoadKeys ==
  {Key("1910", 1910), Key("1920", 1920), Key("1930", 1930), Key("meta", -1),
   Key("info", -1)}

PropOf(k) ==
  Prop(k, IF k.index >= 0 THEN Entry(k.name, SamplesTail) ELSE NoSamplesEntry(k.name))

KeyOrders ==
  {s \in UNION {[1..n -> LoadKeys] : n \in 0..MaxKeys} :
     \A i, j \in 1..Len(s) : s[i] = s[j] => i = j}

DataResponses ==
  {FetchRejected, HttpError(404), HttpError(500), NotJson}
    \cup {Payload(JArray(d)) : d \in Datasets \cup {DataShort}}
    \cup {Payload(JObject([i \in 1..Len(s) |-> PropOf(s[i])])) : s \in KeyOrders}
    \cup {Payload(JNull), Payload(JNumber), Payload(JString(<<"a", "b">>))}

\* initWithProgress up to its second await, loadData included: a throw of
\* loadData would end the initialisation.
InitFetch(response) ==
  LET loadedData == loadData(response)
  IN /\ initPc = "start"
     /\ loader' = [op |-> "loadData", response |-> response, result |-> loadedData]
     /\ IF loadedData.threw
        THEN /\ initPc' = "failed"
             /\ threw' = TRUE
             /\ UNCHANGED <<data, year, markers>>
        ELSE /\ data' = [loaded |-> TRUE, entries |-> loadedData.value]
             /\ year' = "1910"
             /\ markers' = centuryData(data', "1910").output
             /\ initPc' = "waiting"
             /\ threw' = FALSE
     /\ last' = [op |-> "initLoad", arg |-> "1910"]
     /\ UNCHANGED <<children, geometryPool, materialPool, matColor, geomDisposed,
                    matDisposed, nextGeom, nextMat, nextMesh, batchStart, leaked,
                    runs, clicks, mgrVars>>

\* The outcomes of fetch handed to DataLoader.loadTemperatureData: failures,
\* arrays of up to MaxItems items, and values that are no array.
YearValues == {Typed("number", 1980), Typed("string", 1980), Missing}

TemperatureValues == {Typed("number", 26), Missing}

Items ==
  {NullItem, Item(Typed("number", 1990), Typed("number", 45), TRUE)}
    \cup {Item(y, tp, FALSE) : y \in YearValues, tp \in TemperatureValues}

ItemLists == UNION {[1..n -> Items] : n \in 0..MaxItems}

TemperatureResponses ==
  {FetchRejected, HttpError(404), HttpError(500), NotJson}
    \cup {Payload(JArray(items)) : items \in ItemLists}
    \cup {Payload(JNull), Payload(JNumber), Payload(JString(<< >>)),
          Payload(JObject(<< >>))}

\* One call of DataLoader.loadTemperatureData and the settling of its promise.
LoadTemperature(response) ==
  /\ loader.op = "none"
  /\ loader' = [op |-> "loadTemperatureData", response |-> response,
                result |-> loadTemperatureData(response)]
  /\ UNCHANGED <<data, year, markers, children, geometryPool, materialPool,
                 matColor, geomDisposed, matDisposed, nextGeom, nextMat, nextMesh,
                 batchStart, leaked, initPc, runs, clicks, threw, last, mgrVars>>

\* The year selectYear assigns: target.id || target.parentElement?.id || year.
SelectedYear(target) ==
  IF target.id # "" THEN target.id
  ELSE IF target.parentId # "" THEN target.parentId
  ELSE year

\* A selectYear that also ends the playback timelines.
selectYearStoppingRuns(target) ==
  /\ clicks < MaxClicks
  /\ clicks' = clicks + 1
  /\ year' = SelectedYear(target)
  /\ Refresh(SelectedYear(target))
  /\ last' = [op |-> "selectYear", arg |-> SelectedYear(target)]
  /\ runs' = [r \in 1..Len(runs) |-> [runs[r] EXCEPT !.st = "done"]]
  /\ UNCHANGED <<data, initPc, mgrVars, loader>>

\* selectYear(target), from onYearsClick or Enter/Space on an option.
selectYear(target) ==
  /\ clicks < MaxClicks
  /\ clicks' = clicks + 1
  /\ year' = SelectedYear(target)
  /\ Refresh(SelectedYear(target))
  /\ last' = [op |-> "selectYear", arg |-> SelectedYear(target)]
  /\ UNCHANGED <<data, initPc, runs, mgrVars, loader>>

\* onPlayClick up to its await: the batch is torn down, GSAP is being loaded.
\* A run records: st, "loading" | "running" | "done"; currentIndex; p, the
\* progress of the latest update in steps; n, the activations it has made;
\* missed, the decade indices 1..7 its updates have jumped over.
onPlayClick ==
  /\ Len(runs) < Cardinality(PlayRuns)
  /\ SetScene(removeChildren(Scene))
  /\ runs' = Append(runs, [st |-> "loading", currentIndex |-> 0, p |-> 0, n |-> 0,
                           missed |-> 0])
  /\ threw' = FALSE
  /\ last' = [op |-> "onPlayClick", arg |-> ""]
  /\ UNCHANGED <<data, year, markers, initPc, clicks, mgrVars, loader>>

\* onPlayClick after loadGSAP resolved: currentIndex = 0, the timeline starts.
PlayStart(r) ==
  /\ runs[r].st = "loading"
  /\ runs' = [runs EXCEPT ![r].st = "running"]
  /\ threw' = FALSE
  /\ last' = [op |-> "playStart", arg |-> ""]
  /\ UNCHANGED <<data, year, markers, children, geometryPool, materialPool,
                 matColor, geomDisposed, matDisposed, nextGeom, nextMat, nextMesh,
                 batchStart, leaked, initPc, clicks, mgrVars, loader>>

\* years[index]: undefined past the end of the array.
YearAt(index) == IF index < Len(years) THEN years[index + 1] ELSE Undefined

\* Math.floor(progress * years.length) for progress = p / ProgressSteps.
TargetIndex(p) == (p * Len(years)) \div ProgressSteps

\* The test of onUpdate comparing with the first index instead of the index
\* shown: every update past index 0 passes it.
ShouldActivatePastFirst(targetIndex, currentIndex) ==
  targetIndex # 0 /\ targetIndex < Len(years)

\* The test of onUpdate with >= for !==: an update that stays on the index
\* shown passes it again.
ShouldActivateAtLeast(targetIndex, currentIndex) ==
  targetIndex >= currentIndex /\ targetIndex < Len(years)

\* The test of onUpdate without the comparison to currentIndex.
ShouldActivateInRange(targetIndex, currentIndex) == targetIndex < Len(years)

\* The test of onUpdate: targetIndex !== currentIndex && targetIndex < years.length.
ShouldActivate(targetIndex, currentIndex) ==
  targetIndex # currentIndex /\ targetIndex < Len(years)

\* The decade indices below years.length lying strictly between the index of
\* the previous update (at progress p) and that of this one (at p2).
JumpedOver(p, p2) ==
  Max(0, (IF TargetIndex(p2) < Len(years) THEN TargetIndex(p2) ELSE Len(years))
           - TargetIndex(p) - 1)

\* onUpdate of a timeline that stays active after the update at progress 1.
onUpdateWithoutEnd(r, p2) ==
  /\ runs[r].st = "running"
  /\ p2 > runs[r].p
  /\ p2 <= ProgressSteps
  /\ LET targetIndex == TargetIndex(p2)
         missed2 == runs[r].missed + JumpedOver(runs[r].p, p2)
     IN IF ShouldActivate(targetIndex, runs[r].currentIndex)
        THEN /\ runs' = [runs EXCEPT ![r] = [st |-> "running", currentIndex |-> targetIndex,
                                             p |-> p2, n |-> @.n + 1,
                                             missed |-> missed2]]
             /\ year' = YearAt(targetIndex)
             /\ Refresh(YearAt(targetIndex))
             /\ last' = [op |-> "activate", arg |-> YearAt(targetIndex)]
        ELSE /\ runs' = [runs EXCEPT ![r].p = p2, ![r].missed = missed2]
             /\ threw' = FALSE
             /\ last' = [op |-> "update", arg |-> ""]
             /\ UNCHANGED <<year, markers, children, geometryPool, materialPool,
                            matColor, geomDisposed, matDisposed, nextGeom, nextMat,
                            nextMesh, batchStart, leaked>>
  /\ UNCHANGED <<data, initPc, clicks, mgrVars, loader>>

\* One onUpdate of run r's timeline, at progress p2 / ProgressSteps. The
\* timeline ends with the update at progress 1.
onUpdate(r, p2) ==
  /\ runs[r].st = "running"
  /\ p2 > runs[r].p
  /\ p2 <= ProgressSteps
  /\ LET targetIndex == TargetIndex(p2)
         st2 == IF p2 = ProgressSteps THEN "done" ELSE "running"
         missed2 == runs[r].missed + JumpedOver(runs[r].p, p2)
     IN IF ShouldActivate(targetIndex, runs[r].currentIndex)
        THEN /\ runs' = [runs EXCEPT ![r] = [st |-> st2, currentIndex |-> targetIndex,
                                             p |-> p2, n |-> @.n + 1,
                                             missed |-> missed2]]
             /\ year' = YearAt(targetIndex)
             /\ Refresh(YearAt(targetIndex))
             /\ last' = [op |-> "activate", arg |-> YearAt(targetIndex)]
        ELSE /\ runs' = [runs EXCEPT ![r].st = st2, ![r].p = p2, ![r].missed = missed2]
             /\ threw' = FALSE
             /\ last' = [op |-> "update", arg |-> ""]
             /\ UNCHANGED <<year, markers, children, geometryPool, materialPool,
                            matColor, geomDisposed, matDisposed, nextGeom, nextMat,
                            nextMesh, batchStart, leaked>>
  /\ UNCHANGED <<data, initPc, clicks, mgrVars, loader>>

\* The invocations of onPlayClick in the behaviours where the play button
\* is used again: the second one can come while the first run still updates.
ReplayRuns == {1, 2}

\* onPlayClick invoked again, up to its await: the timeline of the earlier
\* run is not stopped, the new run gets a currentIndex of its own.
onPlayClickAgain ==
  /\ Len(runs) >= Cardinality(PlayRuns)
  /\ Len(runs) < Cardinality(ReplayRuns)
  /\ SetScene(removeChildren(Scene))
  /\ runs' = Append(runs, [st |-> "loading", currentIndex |-> 0, p |-> 0, n |-> 0,
                           missed |-> 0])
  /\ threw' = FALSE
  /\ last' = [op |-> "onPlayClick", arg |-> ""]
  /\ UNCHANGED <<data, year, markers, initPc, clicks, mgrVars, loader>>

SceneNext ==
  \/ \E entries \in Datasets : InitLoad(entries)
  \/ InitRender
  \/ \E target \in Targets : selectYear(target)
  \/ onPlayClick
  \/ \E r \in 1..Len(runs) : PlayStart(r)
  \/ \E r \in 1..Len(runs) : \E p2 \in 1..ProgressSteps : onUpdate(r, p2)

\* The page with the play button used twice and no selection.
ReplayNext ==
  \/ InitLoad(DataShort)
  \/ InitRender
  \/ onPlayClick
  \/ onPlayClickAgain
  \/ \E r \in 1..Len(runs) : PlayStart(r)
  \/ \E r \in 1..Len(runs) : \E p2 \in 1..ProgressSteps : onUpdate(r, p2)

\* Longest sample array parsed.
MaxSamples == 7

\* The values of the sample arrays parsed: a negative one, zero, a positive one.
SampleValues == {-1, 0, 2}

\* Every sample array of up to MaxSamples values.
SampleArrays == UNION {[1..k -> SampleValues] : k \in 0..MaxSamples}

\* The page loading a dataset whose decade "1910" is any sample array:
\* initWithProgress parses it with centuryData.
ParseNext ==
  \/ \E samples \in SampleArrays : InitLoad(<<Entry("1910", samples)>>)
  \/ InitRender

\* ------------------------------------------------------- the worker (part_002)
RECURSIVE WorkerTurns(_, _, _)
\* The loop of the worker's processClimateData, turns lo..hi (turn k is at
\* position 3k): incomplete triples and zero deltas are skipped.
WorkerTurns(yearData, lo, hi) ==
  IF lo > hi THEN << >>
  ELSE IF lo = hi
       THEN LET pt == ParseTurn(yearData, 3 * lo)
            IN IF pt = << >> THEN << >>
               ELSE IF pt[1].delta = 0 THEN << >> ELSE pt
  ELSE LET mid == (lo + hi) \div 2
       IN WorkerTurns(yearData, lo, mid) \o WorkerTurns(yearData, mid + 1, hi)

\* A worker that keeps the points whose delta is zero.
workerProcessKeepingZero(yearData) == ParseFrom(yearData)

workerProcessClimateData(yearData) ==
  WorkerTurns(yearData, 0, ((Len(yearData) + 2) \div 3) - 1)

RECURSIVE StatsLoop(_, _, _)
\* The for-of loop of calculateStatistics from point i, acc being
\* [minDelta, maxDelta, sum, nonZeroCount].
StatsLoop(pts, i, acc) ==
  IF i > Len(pts) THEN acc
  ELSE StatsLoop(pts, i + 1,
         [minDelta |-> IF pts[i].delta < acc.minDelta THEN pts[i].delta ELSE acc.minDelta,
          maxDelta |-> IF pts[i].delta > acc.maxDelta THEN pts[i].delta ELSE acc.maxDelta,
          sum |-> acc.sum + pts[i].delta,
          nonZeroCount |-> IF pts[i].delta # 0 THEN acc.nonZeroCount + 1
                           ELSE acc.nonZeroCount])

\* A calculateStatistics whose minDelta and maxDelta start from 0 instead of
\* the delta of the first point.
calculateStatisticsFromZero(pts) ==
  IF Len(pts) = 0
  THEN [count |-> 0, minDelta |-> 0, maxDelta |-> 0, avgNum |-> 0, avgDen |-> 1,
        nonZeroCount |-> 0]
  ELSE LET acc == StatsLoop(pts, 1, [minDelta |-> 0, maxDelta |-> 0,
                                     sum |-> 0, nonZeroCount |-> 0])
       IN [count |-> Len(pts), minDelta |-> acc.minDelta, maxDelta |-> acc.maxDelta,
           avgNum |-> acc.sum, avgDen |-> Len(pts), nonZeroCount |-> acc.nonZeroCount]

\* calculateStatistics; avgDelta = sum / count is kept as the pair of its
\* numerator and denominator (0/1 for the empty list).
calculateStatistics(pts) ==
  IF Len(pts) = 0
  THEN [count |-> 0, minDelta |-> 0, maxDelta |-> 0, avgNum |-> 0, avgDen |-> 1,
        nonZeroCount |-> 0]
  ELSE LET acc == StatsLoop(pts, 1, [minDelta |-> pts[1].delta, maxDelta |-> pts[1].delta,
                                     sum |-> 0, nonZeroCount |-> 0])
       IN [count |-> Len(pts), minDelta |-> acc.minDelta, maxDelta |-> acc.maxDelta,
           avgNum |-> acc.sum, avgDen |-> Len(pts), nonZeroCount |-> acc.nonZeroCount]

NoStats == calculateStatistics(<< >>)

\* An onmessage whose catch clause posts the error without the requestId.
WorkerResponseErrorWithoutId(msg) ==
  IF msg.type = "PROCESS_CLIMATE_DATA"
  THEN LET processedData == workerProcessClimateData(msg.data)
       IN [type |-> "CLIMATE_DATA_PROCESSED", requestId |-> msg.requestId,
           hasData |-> TRUE, data |-> processedData,
           hasStats |-> TRUE, stats |-> calculateStatistics(processedData),
           error |-> ""]
  ELSE IF msg.type = "CALCULATE_STATISTICS"
  THEN [type |-> "STATISTICS_CALCULATED", requestId |-> msg.requestId,
        hasData |-> FALSE, data |-> << >>,
        hasStats |-> TRUE, stats |-> calculateStatistics(msg.data),
        error |-> ""]
  ELSE [type |-> "ERROR", requestId |-> [n |-> 0, t |-> 0],
        hasData |-> FALSE, data |-> << >>, hasStats |-> FALSE, stats |-> NoStats,
        error |-> "Unknown message type: " \o msg.type]

\* The response self.onmessage posts for request msg.
WorkerResponse(msg) ==
  IF msg.type = "PROCESS_CLIMATE_DATA"
  THEN LET processedData == workerProcessClimateData(msg.data)
       IN [type |-> "CLIMATE_DATA_PROCESSED", requestId |-> msg.requestId,
           hasData |-> TRUE, data |-> processedData,
           hasStats |-> TRUE, stats |-> calculateStatistics(processedData),
           error |-> ""]
  ELSE IF msg.type = "CALCULATE_STATISTICS"
  THEN [type |-> "STATISTICS_CALCULATED", requestId |-> msg.requestId,
        hasData |-> FALSE, data |-> << >>,
        hasStats |-> TRUE, stats |-> calculateStatistics(msg.data),
        error |-> ""]
  ELSE [type |-> "ERROR", requestId |-> msg.requestId,
        hasData |-> FALSE, data |-> << >>, hasStats |-> FALSE, stats |-> NoStats,
        error |-> "Unknown message type: " \o msg.type]

\* ------------------------------------------------- the manager: maps, promises
EmptyMap == [k \in {} |-> 0]

MapHas(m, k) == k \in DOMAIN m

MapSet(m, k, v) == [x \in (DOMAIN m) \cup {k} |-> IF x = k THEN v ELSE m[x]]

MapDelete(m, k) == [x \in (DOMAIN m) \ {k} |-> m[x]]

NoValue == [kind |-> "none", data |-> << >>, stats |-> NoStats, error |-> ""]

ErrorValue(message) ==
  [kind |-> "error", data |-> << >>, stats |-> NoStats, error |-> message]

\* resolve(value) / reject(error) of call c's promise: the first one settles
\* it, later ones have no effect; settleCalls counts all of them.
Resolve(cs, c, value) ==
  [cs EXCEPT ![c].settleCalls = @ + 1,
             ![c].promise = IF @ = "pending" THEN "resolved" ELSE @,
             ![c].value = IF cs[c].promise = "pending" THEN value ELSE @]

Reject(cs, c, message) ==
  [cs EXCEPT ![c].settleCalls = @ + 1,
             ![c].promise = IF @ = "pending" THEN "rejected" ELSE @,
             ![c].value = IF cs[c].promise = "pending" THEN ErrorValue(message) ELSE @]

RECURSIVE RejectEach(_, _, _)
\* request.reject(error) for every call of the set pending.
RejectEach(cs, pending, message) ==
  IF pending = {} THEN cs
  ELSE LET c == CHOOSE x \in pending : TRUE
       IN RejectEach(Reject(cs, c, message), pending \ {c}, message)

\* The first of the two loops only: the statistics requests are forgotten.
RejectProcessingOnly(cs, message) ==
  RejectEach(cs, {processingRequests[k] : k \in DOMAIN processingRequests}, message)

\* The two for-of loops of handleWorkerError and terminate.
RejectAll(cs, message) ==
  RejectEach(RejectEach(cs, {processingRequests[k] : k \in DOMAIN processingRequests},
                        message),
             {statisticsRequests[k] : k \in DOMAIN statisticsRequests}, message)

\* An identifier made of the time alone, the counter left out.
generateRequestIdFromTime(now) == [n |-> 0, t |-> now]

\* generateRequestId at time now: `req_${++counter}_${Date.now()}`.
generateRequestId(now) == [n |-> requestIdCounter + 1, t |-> now]

NoId == [n |-> 0, t |-> 0]

\* Values Date.now() returns: the calls fall in the same millisecond, the
\* case in which only the counter tells two identifiers apart.
Clock == {0}

\* The inputs of the calls.
ProcessInputs == {SamplesExample}

StatisticsInputs == {ParseFrom(SamplesExample)}

MgrInit ==
  /\ worker = 0
  /\ workersMade = 0
  /\ processingRequests = EmptyMap
  /\ statisticsRequests = EmptyMap
  /\ requestIdCounter = 0
  /\ calls = << >>
  /\ microtasks = << >>
  /\ inbox = << >>
  /\ outbox = << >>

\* The part of processClimateData / calculateStatistics after the await, for
\* call c: a fresh id, the map entry, and the message posted to this.worker.
\* With this.worker null, postMessage throws inside the promise executor,
\* which rejects the promise; the entry stays in the map.
Register(c, cs, now) ==
  LET requestId == generateRequestId(now)
      isProcess == cs[c].kind = "process"
      cs1 == [cs EXCEPT ![c].pc = "registered", ![c].requestId = requestId]
  IN /\ requestIdCounter' = requestIdCounter + 1
     /\ processingRequests' =
          IF isProcess THEN MapSet(processingRequests, requestId, c)
          ELSE processingRequests
     /\ statisticsRequests' =
          IF isProcess THEN statisticsRequests
          ELSE MapSet(statisticsRequests, requestId, c)
     /\ IF worker = 0
        THEN /\ calls' = Reject(cs1, c, "TypeError")
             /\ inbox' = inbox
        ELSE /\ calls' = cs1
             /\ inbox' = Append(inbox,
                  [type |-> IF isProcess THEN "PROCESS_CLIMATE_DATA"
                            ELSE "CALCULATE_STATISTICS",
                   data |-> cs[c].data, requestId |-> requestId])

NewCall(kind, input) ==
  [kind |-> kind, data |-> input, pc |-> "awaitInit", requestId |-> NoId,
   promise |-> "pending", value |-> NoValue, settleCalls |-> 0]

\* processClimateData(data, year) or calculateStatistics(data) is called.
\* Without a worker, init() constructs one and the call suspends at its
\* await; with a worker the call runs to the end in the same turn.
Call(kind, input, now) ==
  /\ Len(calls) < MaxCalls
  /\ LET c == Len(calls) + 1
         cs == Append(calls, NewCall(kind, input))
     IN IF worker = 0
        THEN /\ worker' = workersMade + 1
             /\ workersMade' = workersMade + 1
             /\ inbox' = << >>
             /\ calls' = cs
             /\ microtasks' = Append(microtasks, c)
             /\ UNCHANGED <<processingRequests, statisticsRequests, requestIdCounter>>
        ELSE /\ Register(c, cs, now)
             /\ UNCHANGED <<worker, workersMade, microtasks>>
  /\ UNCHANGED <<outbox, sceneVars>>

\* The promise an async function without awaits returns: resolved at once.
InitCall ==
  [NewCall("init", << >>) EXCEPT !.pc = "done", !.promise = "resolved"]

\* init() constructing a worker whether or not one exists.
initAlways ==
  /\ Len(calls) < MaxCalls
  /\ calls' = Append(calls, InitCall)
  /\ worker' = workersMade + 1
  /\ workersMade' = workersMade + 1
  /\ inbox' = << >>
  /\ UNCHANGED <<processingRequests, statisticsRequests, requestIdCounter,
                 microtasks, outbox, sceneVars>>

\* init() called on its own: a worker is constructed if there is none.
init ==
  /\ Len(calls) < MaxCalls
  /\ calls' = Append(calls, InitCall)
  /\ IF worker = 0
     THEN /\ worker' = workersMade + 1
          /\ workersMade' = workersMade + 1
          /\ inbox' = << >>
     ELSE UNCHANGED <<worker, workersMade, inbox>>
  /\ UNCHANGED <<processingRequests, statisticsRequests, requestIdCounter,
                 microtasks, outbox, sceneVars>>

\* The continuation of the oldest call suspended at "await this.init()".
Continue(now) ==
  /\ microtasks # << >>
  /\ Register(Head(microtasks), calls, now)
  /\ microtasks' = Tail(microtasks)
  /\ UNCHANGED <<worker, workersMade, outbox, sceneVars>>

\* A worker that handles the newest message posted to it first.
WorkerStepNewestFirst ==
  /\ worker # 0
  /\ inbox # << >>
  /\ outbox' = Append(outbox, [from |-> worker,
                               msg |-> WorkerResponse(inbox[Len(inbox)])])
  /\ inbox' = SubSeq(inbox, 1, Len(inbox) - 1)
  /\ UNCHANGED <<worker, workersMade, processingRequests, statisticsRequests,
                 requestIdCounter, calls, microtasks, sceneVars>>

\* The worker handles the oldest message posted to it and posts its response.
WorkerStep ==
  /\ worker # 0
  /\ inbox # << >>
  /\ outbox' = Append(outbox, [from |-> worker, msg |-> WorkerResponse(Head(inbox))])
  /\ inbox' = Tail(inbox)
  /\ UNCHANGED <<worker, workersMade, processingRequests, statisticsRequests,
                 requestIdCounter, calls, microtasks, sceneVars>>

\* A switch whose ERROR and default cases look the request up again, after
\* the deletion, as the success cases do.
SettleAfterLookup(cs, proc, stat, pendingCall, m) ==
  IF MapHas(proc, m.requestId)
  THEN Reject(cs, proc[m.requestId], "Worker error")
  ELSE IF MapHas(stat, m.requestId)
       THEN Reject(cs, stat[m.requestId], "Worker error")
       ELSE cs

\* The switch of handleWorkerMessage on response m, after the entry was
\* deleted from both maps: proc and stat are the maps after the deletion,
\* pendingCall the call found before it.
SettleByType(cs, proc, stat, pendingCall, m) ==
  IF m.type = "CLIMATE_DATA_PROCESSED"
  THEN IF MapHas(proc, m.requestId) /\ m.hasData /\ m.hasStats
       THEN Resolve(cs, proc[m.requestId],
                    [kind |-> "processed", data |-> m.data, stats |-> m.stats, error |-> ""])
       ELSE IF MapHas(proc, m.requestId)
            THEN Reject(cs, proc[m.requestId], "Invalid climate data response")
            ELSE cs
  ELSE IF m.type = "STATISTICS_CALCULATED"
  THEN IF MapHas(stat, m.requestId) /\ m.hasStats
       THEN Resolve(cs, stat[m.requestId],
                    [kind |-> "stats", data |-> << >>, stats |-> m.stats, error |-> ""])
       ELSE IF MapHas(stat, m.requestId)
            THEN Reject(cs, stat[m.requestId], "Invalid statistics response")
            ELSE cs
  ELSE IF m.type = "ERROR"
  THEN Reject(cs, pendingCall, IF m.error # "" THEN m.error ELSE "Worker error")
  ELSE Reject(cs, pendingCall, "Unknown response type: " \o m.type)

\* handleWorkerMessage rejecting every pending request when the identifier of
\* the response is in neither map.
handleWorkerMessageRejectingOnUnknown ==
  /\ microtasks = << >>
  /\ outbox # << >>
  /\ LET m == Head(outbox).msg
         found == MapHas(processingRequests, m.requestId)
                    \/ MapHas(statisticsRequests, m.requestId)
         pendingCall == IF MapHas(processingRequests, m.requestId)
                        THEN processingRequests[m.requestId]
                        ELSE statisticsRequests[m.requestId]
         proc == MapDelete(processingRequests, m.requestId)
         stat == MapDelete(statisticsRequests, m.requestId)
     IN IF ~found
        THEN /\ calls' = RejectAll(calls, "Unknown request")
             /\ processingRequests' = EmptyMap
             /\ statisticsRequests' = EmptyMap
        ELSE /\ processingRequests' = proc
             /\ statisticsRequests' = stat
             /\ calls' = SettleByType(calls, proc, stat, pendingCall, m)
  /\ outbox' = Tail(outbox)
  /\ UNCHANGED <<worker, workersMade, requestIdCounter, microtasks, inbox, sceneVars>>

\* handleWorkerMessage on the oldest undelivered response. It runs as a task
\* of its own, so after the suspended calls have continued.
handleWorkerMessage ==
  /\ microtasks = << >>
  /\ outbox # << >>
  /\ LET m == Head(outbox).msg
         found == MapHas(processingRequests, m.requestId)
                    \/ MapHas(statisticsRequests, m.requestId)
         pendingCall == IF MapHas(processingRequests, m.requestId)
                        THEN processingRequests[m.requestId]
                        ELSE statisticsRequests[m.requestId]
         proc == MapDelete(processingRequests, m.requestId)
         stat == MapDelete(statisticsRequests, m.requestId)
     IN IF ~found
        THEN UNCHANGED <<processingRequests, statisticsRequests, calls>>
        ELSE /\ processingRequests' = proc
             /\ statisticsRequests' = stat
             /\ calls' = SettleByType(calls, proc, stat, pendingCall, m)
  /\ outbox' = Tail(outbox)
  /\ UNCHANGED <<worker, workersMade, requestIdCounter, microtasks, inbox, sceneVars>>

\* A response of a terminated worker is not delivered.
DropResponse ==
  /\ outbox # << >>
  /\ Head(outbox).from # worker
  /\ outbox' = Tail(outbox)
  /\ UNCHANGED <<worker, workersMade, processingRequests, statisticsRequests,
                 requestIdCounter, calls, microtasks, inbox, sceneVars>>

\* handleWorkerError: the live worker raised an error event.
handleWorkerError ==
  /\ microtasks = << >>
  /\ worker # 0
  /\ calls' = RejectAll(calls, "Worker error: message")
  /\ processingRequests' = EmptyMap
  /\ statisticsRequests' = EmptyMap
  /\ UNCHANGED <<worker, workersMade, requestIdCounter, microtasks, inbox, outbox,
                 sceneVars>>

\* terminate(): the worker is stopped and forgotten, the pending rejected.
terminate ==
  /\ worker' = 0
  /\ inbox' = << >>
  /\ calls' = RejectAll(calls, "Worker terminated")
  /\ processingRequests' = EmptyMap
  /\ statisticsRequests' = EmptyMap
  /\ UNCHANGED <<workersMade, requestIdCounter, microtasks, outbox, sceneVars>>

\* The responses a WorkerMessage can be for request msg: type is any string
\* and data, stats and error are optional. The first is the one the worker
\* posts; an ERROR response is what its catch clause posts, with or without
\* a text; the others are a type the manager does not know and the success
\* types with a field missing.
ResponsesTo(msg) ==
  LET ok == WorkerResponse(msg)
      bare == [type |-> "ERROR", requestId |-> msg.requestId, hasData |-> FALSE,
               data |-> << >>, hasStats |-> FALSE, stats |-> NoStats, error |-> ""]
  IN {ok,
      [bare EXCEPT !.error = "Processing failed"],
      bare,
      [bare EXCEPT !.type = "PROGRESS"],
      [ok EXCEPT !.hasStats = FALSE, !.stats = NoStats],
      [ok EXCEPT !.type = "CLIMATE_DATA_PROCESSED", !.hasData = FALSE, !.data = << >>]}

\* The worker answers the oldest message posted to it with any WorkerMessage
\* for that request.
RespondAny ==
  /\ worker # 0
  /\ inbox # << >>
  /\ \E m \in ResponsesTo(Head(inbox)) :
       outbox' = Append(outbox, [from |-> worker, msg |-> m])
  /\ inbox' = Tail(inbox)
  /\ UNCHANGED <<worker, workersMade, processingRequests, statisticsRequests,
                 requestIdCounter, calls, microtasks, sceneVars>>

\* The manager facing every kind of response.
ResponsesNext ==
  \/ \E input \in ProcessInputs : \E now \in Clock : Call("process", input, now)
  \/ \E input \in StatisticsInputs : \E now \in Clock : Call("statistics", input, now)
  \/ \E now \in Clock : Continue(now)
  \/ RespondAny
  \/ handleWorkerMessage

\* Number of messages posted to the worker.
MaxPosts == 3

\* The messages posted to the worker directly: the two request types and
\* types the worker does not know, with identifiers chosen by the sender.
WorkerRequests ==
  {[type |-> t, data |-> ParseFrom(SamplesExample), requestId |-> [n |-> k, t |-> 0]] :
     t \in {"CALCULATE_STATISTICS", "PING", ""}, k \in {1, 2}}
  \cup {[type |-> "PROCESS_CLIMATE_DATA", data |-> SamplesExample,
         requestId |-> [n |-> k, t |-> 0]] : k \in {1, 2}}

\* postMessage(msg) on the worker by its owner, who constructs the worker
\* first if there is none; limit bounds the messages posted.
PostMessage(msg, limit) ==
  /\ Len(inbox) + Len(outbox) < limit
  /\ IF worker = 0
     THEN worker' = workersMade + 1 /\ workersMade' = workersMade + 1
     ELSE UNCHANGED <<worker, workersMade>>
  /\ inbox' = Append(inbox, msg)
  /\ UNCHANGED <<processingRequests, statisticsRequests, requestIdCounter, calls,
                 microtasks, outbox, sceneVars>>

\* Longest list of points whose statistics are calculated.
MaxPoints == 4

\* The deltas of those points, in tenths.
PointDeltas == {-3, 0, 5}

\* Every list of up to MaxPoints points.
PointLists ==
  UNION {[1..k -> {[lat |-> 0, lon |-> 0, delta |-> d] : d \in PointDeltas}] :
           k \in 0..MaxPoints}

\* The worker asked once for the statistics of any list of points.
StatisticsNext ==
  \/ \E pts \in PointLists :
       PostMessage([type |-> "CALCULATE_STATISTICS", data |-> pts,
                    requestId |-> [n |-> 1, t |-> 0]], 1)
  \/ WorkerStep

\* The worker alone, with any messages posted to it.
WorkerNext ==
  \/ \E msg \in WorkerRequests : PostMessage(msg, MaxPosts)
  \/ WorkerStep

MgrNext ==
  \/ \E input \in ProcessInputs : \E now \in Clock : Call("process", input, now)
  \/ \E input \in StatisticsInputs : \E now \in Clock : Call("statistics", input, now)
  \/ \E now \in Clock : Continue(now)
  \/ WorkerStep
  \/ handleWorkerMessage
  \/ DropResponse
  \/ handleWorkerError
  \/ terminate

\* Initialisation and selections on datasets whose labels and positions differ.
OrderNext ==
  \/ \E entries \in OrderDatasets : InitLoad(entries)
  \/ InitRender
  \/ \E target \in Targets : selectYear(target)

\* The page on the dataset with the large first decade: selections of the two
\* first decades and the play button, also during the wait of initWithProgress.
LargeDecadeNext ==
  \/ InitLoad(DataBig)
  \/ InitRender
  \/ \E target \in {Target("1910", "years-list"), Target("1920", "years-list")} :
       selectYear(target)
  \/ onPlayClick

\* Markers created one by one from every input.
MarkerNext == \E m \in MarkerInputs : AddMarker(m[1], m[2], m[3])

\* The manager with init() called from outside as well.
LifecycleNext ==
  \/ init
  \/ MgrNext

\* Initialisation and one playback run on the two-decade dataset.
PlaybackNext ==
  \/ InitLoad(DataShort)
  \/ InitRender
  \/ onPlayClick
  \/ \E r \in 1..Len(runs) : PlayStart(r)
  \/ \E r \in 1..Len(runs) : \E p2 \in 1..ProgressSteps : onUpdate(r, p2)

\* The timeline of a run that is running delivers a further update.
UpdateDelivered == \E r \in 1..Len(runs) : \E p2 \in 1..ProgressSteps : onUpdate(r, p2)

\* The calls of the behaviours in which the settling of promises is followed.
SettleCalls == {1, 2}

\* The manager and its worker, with two calls.
SettleNext ==
  \/ \E input \in ProcessInputs : \E now \in Clock :
       Len(calls) < Cardinality(SettleCalls) /\ Call("process", input, now)
  \/ \E input \in StatisticsInputs : \E now \in Clock :
       Len(calls) < Cardinality(SettleCalls) /\ Call("statistics", input, now)
  \/ \E now \in Clock : Continue(now)
  \/ WorkerStep
  \/ handleWorkerMessage
  \/ DropResponse
  \/ handleWorkerError
  \/ terminate

\* The message that hands the samples of the loaded decade "1910" to the
\* worker.
LoadedRequest ==
  [type |-> "PROCESS_CLIMATE_DATA",
   data |-> data.entries[1].samples,
   requestId |-> [n |-> 1, t |-> 0]]

\* The main-thread path and the worker path on the same sample array: the
\* page loads and renders the decade, and the worker is sent its samples.
BothPathsNext ==
  \/ \E samples \in SampleArrays : InitLoad(<<Entry("1910", samples)>>)
  \/ InitRender
  \/ data.loaded /\ PostMessage(LoadedRequest, 1)
  \/ WorkerStep

\* Initialisation from every outcome of the fetch.
LoadNext ==
  \/ \E response \in DataResponses : InitFetch(response)
  \/ InitRender

\* The tested loader on every outcome of the fetch.
LoaderNext == \E response \in TemperatureResponses : LoadTemperature(response)

\* ------------------------------------------------------------ specifications
Init == SceneInit /\ MgrInit

\* The scene: initialisation, selections and playback.
Spec == Init /\ [][SceneNext]_vars

\* Playback started twice.
SpecReplay == Init /\ [][ReplayNext]_vars

\* The worker manager receiving well-formed and other responses.
SpecResponses == Init /\ [][ResponsesNext]_vars

\* The worker and the messages posted to it.
SpecWorker == Init /\ [][WorkerNext]_vars

\* centuryData applied to every sample array.
SpecParse == Init /\ [][ParseNext]_vars

\* calculateStatistics applied to every list of points.
SpecStatistics == Init /\ [][StatisticsNext]_vars

\* The worker manager and its worker.
SpecManager == Init /\ [][MgrNext]_vars

\* The manager whose tasks are all run in the end: a call suspended at
\* "await this.init()" continues, the live worker handles the messages posted
\* to it, and a posted response is delivered (or dropped with its worker).
SpecManagerFair ==
  /\ Init
  /\ [][SettleNext]_vars
  /\ WF_vars(\E now \in Clock : Continue(now))
  /\ WF_vars(WorkerStep)
  /\ WF_vars(handleWorkerMessage \/ DropResponse)

\* The worker manager, its worker and direct calls of init().
SpecLifecycle == Init /\ [][LifecycleNext]_vars

\* Playback whose timeline keeps delivering updates while it runs: the
\* ticker calls onUpdate on every frame until the tween of 8 seconds ends.
SpecPlayback == Init /\ [][PlaybackNext]_vars /\ WF_vars(UpdateDelivered)

\* centuryData with renderAnomalies, and the worker, on every sample array.
SpecBothPaths == Init /\ [][BothPathsNext]_vars

\* loadData inside the initialisation.
SpecLoad == Init /\ [][LoadNext]_vars

\* The scene on datasets whose entry labels do not follow their positions.
SpecOrder == Init /\ [][OrderNext]_vars

\* The scene on the dataset whose first decade exceeds the pool cap.
SpecLargeDecade == Init /\ [][LargeDecadeNext]_vars

\* DataLoader.loadTemperatureData.
SpecLoader == Init /\ [][LoaderNext]_vars

\* addCoord applied to every marker input.
SpecMarker == Init /\ [][MarkerNext]_vars

\* ---------------------------------------------------- properties: the scene
\* The dataset entry the label joins to, by its position in years.
HasEntry(label) ==
  /\ data.loaded
  /\ IndexOf(years, label) >= 0
  /\ IndexOf(years, label) + 1 <= Len(data.entries)
  /\ data.entries[IndexOf(years, label) + 1].present

HasSamples(label) ==
  HasEntry(label) /\ data.entries[IndexOf(years, label) + 1].hasSamples

SamplesOf(label) == data.entries[IndexOf(years, label) + 1].samples

\* The points of a sample array whose delta is not zero, counted on the array.
NonZeroPoints(samples) ==
  Cardinality({k \in 1..(Len(samples) \div 3) : samples[3 * k] # 0})

MeshIds(meshes) == {meshes[i].id : i \in 1..Len(meshes)}

\* This step is an activation of a decade: a selection, or an index
\* transition of a playback run.
ActivationStep ==
  \/ clicks' = clicks + 1
  \/ \E r \in 1..Len(runs) : runs'[r].n = runs[r].n + 1

\* C1: after a decade whose label is in years and whose dataset entry holds
\* samples is activated, the live markers are as many as the points of that
\* decade with a non-zero delta, and no marker attached before is attached.
C1_ActivationShowsDecade ==
  [][(ActivationStep /\ HasSamples(year'))
       => /\ Len(children') = NonZeroPoints(SamplesOf(year'))
          /\ MeshIds(children') \cap MeshIds(children) = {}]_vars

\* A selection of "1920" has replaced the long batch of "1910" by its own.
C1_Witness ==
  /\ last.op = "selectYear"
  /\ last.arg = "1920"
  /\ data.entries = DataBig
  /\ Len(children) = NonZeroPoints(SamplesExample)
  /\ nextMesh >= BigN + Len(children)

\* C2: at most one marker batch is live: every attached marker was made by
\* the latest rendering.
C2_OneBatchLive ==
  \A i \in 1..Len(children) : children[i].id > batchStart

\* The markers this step detaches.
Detached == Cardinality(MeshIds(children) \ MeshIds(children'))

\* C3: neither pool ever holds more than MAX_POOL_SIZE entries, and a step
\* disposes exactly the resources it returns beyond the cap: those in the
\* pool before it plus those it returns, less MAX_POOL_SIZE.
C3_PoolsCapped ==
  /\ Len(geometryPool) <= MAX_POOL_SIZE
  /\ Len(materialPool) <= MAX_POOL_SIZE
  /\ [][/\ Len(geometryPool') <= MAX_POOL_SIZE
        /\ Len(materialPool') <= MAX_POOL_SIZE
        /\ Cardinality(geomDisposed' \ geomDisposed)
             = Max(0, Len(geometryPool) + Detached - MAX_POOL_SIZE)
        /\ Cardinality(matDisposed' \ matDisposed)
             = Max(0, Len(materialPool) + Detached - MAX_POOL_SIZE)]_vars

\* Both pools are full and a resource of each kind was disposed.
C3_Witness ==
  /\ Len(geometryPool) = MAX_POOL_SIZE
  /\ Len(materialPool) = MAX_POOL_SIZE
  /\ geomDisposed # {}
  /\ matDisposed # {}

\* C4: every marker made is attached and unreleased, or was detached with
\* exactly one return of its geometry and one of its material; and every
\* geometry and material made is in one place: on an attached marker, in its
\* pool, or disposed.
C4_ReleasedExactlyOnce ==
  /\ leaked = {}
  /\ \A i \in 1..Len(children) : children[i].relG = 0 /\ children[i].relM = 0
  /\ {children[i].geometry : i \in 1..Len(children)} \cup Range(geometryPool)
       \cup geomDisposed = 1..nextGeom
  /\ Len(children) + Len(geometryPool) + Cardinality(geomDisposed) = nextGeom
  /\ {children[i].material : i \in 1..Len(children)} \cup Range(materialPool)
       \cup matDisposed = 1..nextMat
  /\ Len(children) + Len(materialPool) + Cardinality(matDisposed) = nextMat

\* A batch was torn down, some of it into the pools and some of it disposed,
\* and another batch is attached.
C4_Witness ==
  /\ nextMesh > Len(children)
  /\ children # << >>
  /\ geometryPool # << >>
  /\ materialPool # << >>
  /\ geomDisposed # {}
  /\ matDisposed # {}

\* ---------------------------------------------- properties: the manager
\* The response handleWorkerMessage is about to handle.
NextResponse == Head(outbox).msg

IsPending(requestId) ==
  MapHas(processingRequests, requestId) \/ MapHas(statisticsRequests, requestId)

PendingCall(requestId) ==
  IF MapHas(processingRequests, requestId) THEN processingRequests[requestId]
  ELSE statisticsRequests[requestId]

\* The response answers a request of a map with the success type of that map.
IsSuccess(m) ==
  \/ m.type = "CLIMATE_DATA_PROCESSED" /\ MapHas(processingRequests, m.requestId)
       /\ m.hasData /\ m.hasStats
  \/ m.type = "STATISTICS_CALCULATED" /\ MapHas(statisticsRequests, m.requestId)
       /\ m.hasStats

\* C5: when handleWorkerMessage handles a success response for a pending
\* request, the entry is removed from the maps and the promise of the request
\* is resolved with the payload of the response.
C5_SuccessResolves ==
  [][(handleWorkerMessage /\ IsSuccess(NextResponse))
       => LET m == NextResponse
              c == PendingCall(m.requestId)
          IN /\ ~MapHas(processingRequests', m.requestId)
             /\ ~MapHas(statisticsRequests', m.requestId)
             /\ calls'[c].promise = "resolved"
             /\ calls'[c].value.data = m.data
             /\ calls'[c].value.stats = m.stats]_vars

\* The calls that have an entry in one of the two maps.
PendingCalls ==
  {processingRequests[k] : k \in DOMAIN processingRequests}
    \cup {statisticsRequests[k] : k \in DOMAIN statisticsRequests}

\* C6: handleWorkerError and terminate reject the promise of every request
\* that has an entry in a map, and leave both maps empty.
C6_FailureRejectsAll ==
  [][(handleWorkerError \/ terminate)
       => /\ \A c \in PendingCalls : calls'[c].promise = "rejected"
          /\ processingRequests' = EmptyMap
          /\ statisticsRequests' = EmptyMap]_vars

\* Three requests were pending, of both kinds: terminate rejected some of
\* them, a worker error the others, and the maps are empty.
C6_Witness ==
  /\ processingRequests = EmptyMap
  /\ statisticsRequests = EmptyMap
  /\ \E c \in 1..Len(calls) : \E d \in 1..Len(calls) :
       /\ calls[c].kind = "process"
       /\ calls[d].kind = "statistics"
       /\ calls[c].value.error = "Worker terminated"
       /\ calls[d].value.error = "Worker terminated"
  /\ \E c \in 1..Len(calls) : calls[c].value.error = "Worker error: message"

\* C7: a request identifier is a key of a map exactly while the promise of
\* its request is unsettled, and no promise is settled twice.
C7_KeyIffUnsettled ==
  \A c \in 1..Len(calls) :
    calls[c].pc = "registered"
      => /\ IsPending(calls[c].requestId) <=> calls[c].promise = "pending"
         /\ calls[c].settleCalls <= 1

\* ------------------------------------------- properties: unknown decades
\* C8: a selection whose label is not in years changes neither the batch,
\* nor the year, nor the pools.
C8_UnknownLabelNoOp ==
  [][(clicks' = clicks + 1 /\ IndexOf(years, last'.arg) = -1)
       => UNCHANGED <<children, year, geometryPool, materialPool>>]_vars

\* C9: an activation whose label is in years, with the dataset loaded and
\* its entry absent or without a sample array, leaves the batch attached and
\* unchanged.
C9_MissingEntryNoOp ==
  [][(ActivationStep /\ data.loaded /\ IndexOf(years, year') >= 0 /\ ~HasSamples(year'))
       => children' = children]_vars

\* ----------------------------------------------------- properties: playback
\* C10 as stated: a finished run has made exactly years.length - 1 activations.
C10_ExactlySevenActivations ==
  \A r \in 1..Len(runs) : runs[r].st = "done" => runs[r].n = Len(years) - 1

\* C10: a run activates once for every decade index 1..7 that one of its
\* updates lands on and never for an index its updates jumped over, so at
\* most years.length - 1 times, and exactly so often when no index is jumped
\* over; every activation is for an index above the one before and makes the
\* decade of that index the current year.
C10_OneActivationPerIndexReached ==
  [][\A r \in 1..Len(runs') :
       /\ runs'[r].n + runs'[r].missed
            = Min(TargetIndex(runs'[r].p), Len(years) - 1)
       /\ (r <= Len(runs) /\ runs'[r].n # runs[r].n)
            => /\ runs'[r].n = runs[r].n + 1
               /\ runs'[r].currentIndex > runs[r].currentIndex
               /\ year' = years[runs'[r].currentIndex + 1]]_vars

\* A run has finished after an activation for each of the indices 1..7.
C10_Witness ==
  \E r \in 1..Len(runs) :
    runs[r].st = "done" /\ runs[r].n = Len(years) - 1 /\ runs[r].missed = 0

\* C11: within a run, an update activates a decade exactly when the index it
\* maps to differs from the index shown and is below years.length, and then
\* exactly once; an update that maps to the same index as the update before
\* it activates nothing; a run never makes more activations than the index
\* it has reached, so none twice for one index.
C11_OncePerIndexTransition ==
  [][\A r \in 1..Len(runs) :
       runs'[r].p # runs[r].p
         => LET targetIndex == TargetIndex(runs'[r].p)
                transition == targetIndex # runs[r].currentIndex
                                /\ targetIndex < Len(years)
            IN /\ transition
                    => /\ runs'[r].n = runs[r].n + 1
                       /\ runs'[r].currentIndex = targetIndex
                       /\ last' = [op |-> "activate", arg |-> years[targetIndex + 1]]
               /\ ~transition
                    => /\ runs'[r].n = runs[r].n
                       /\ runs'[r].currentIndex = runs[r].currentIndex
                       /\ children' = children
               /\ targetIndex = TargetIndex(runs[r].p) => runs'[r].n = runs[r].n
               /\ runs'[r].n <= runs'[r].currentIndex]_vars

\* The update at progress 3/16 came after the one at 2/16: both map to index
\* 1, and the run has activated once.
C11_Witness ==
  \E r \in 1..Len(runs) :
    /\ last.op = "update"
    /\ runs[r].p = 3
    /\ runs[r].currentIndex = 1
    /\ runs[r].n = 1

\* C12 as stated: of two playback activations that follow one another, in the
\* same run or not, the second is for a larger decade index.
C12_ActivationsIncreaseOverall ==
  [][(last.op = "activate" /\ \E r \in 1..Len(runs) : runs'[r].n = runs[r].n + 1)
       => IndexOf(years, last'.arg) > IndexOf(years, last.arg)]_vars

\* C12: the activations of one playback run are strictly increasing in
\* decade index, each for an index above every index the run has shown, also
\* while another run is firing updates.
C12_ActivationsIncreaseWithinRun ==
  [][\A r \in 1..Len(runs) :
       runs'[r].n # runs[r].n
         => /\ runs'[r].currentIndex > runs[r].currentIndex
            /\ last' = [op |-> "activate", arg |-> years[runs'[r].currentIndex + 1]]
            /\ \A q \in 1..Len(runs) : q # r => runs'[q] = runs[q]]_vars

\* Two runs are firing updates and each has activated: the run started
\* second has just shown an index below the one the first run has reached.
C12_Witness ==
  /\ Len(runs) = 2
  /\ runs[1].st = "running" /\ runs[2].st = "running"
  /\ runs[1].n >= 1 /\ runs[2].n >= 1
  /\ runs[2].currentIndex < runs[1].currentIndex
  /\ last = [op |-> "activate", arg |-> years[runs[2].currentIndex + 1]]

\* C13: a selection changes no playback run, so a run in progress goes on
\* updating; and the first index transition of a run after a selection
\* activates the decade of that index, replacing the batch the selection
\* had put up.
C13_SelectionDoesNotStopRun ==
  [][/\ clicks' = clicks + 1 => runs' = runs
     /\ \A r \in 1..Len(runs) :
          (last.op = "selectYear" /\ runs'[r].n = runs[r].n + 1)
            => /\ year' = years[runs'[r].currentIndex + 1]
               /\ MeshIds(children') \cap MeshIds(children) = {}
               /\ HasSamples(year') => Len(children') = NonZeroPoints(SamplesOf(year'))]_vars

\* A run that has activated is still running, and a selection of "1920" has
\* just put up its batch.
C13_Witness ==
  /\ last = [op |-> "selectYear", arg |-> "1920"]
  /\ children # << >>
  /\ \E r \in 1..Len(runs) :
       runs[r].st = "running" /\ runs[r].n >= 1 /\ runs[r].p < ProgressSteps

\* C14: the request identifiers given to two different calls of a manager,
\* of either kind, differ.
C14_RequestIdsDiffer ==
  \A c \in 1..Len(calls) : \A d \in 1..Len(calls) :
    (c # d /\ calls[c].pc = "registered" /\ calls[d].pc = "registered")
      => calls[c].requestId # calls[d].requestId

\* Three calls of both kinds have their identifiers, given in the same
\* millisecond, the last of them after the worker was replaced.
C14_Witness ==
  /\ Len(calls) >= 3
  /\ \A c \in 1..Len(calls) : calls[c].pc = "registered"
  /\ \E c \in 1..Len(calls) : calls[c].kind = "process"
  /\ \E c \in 1..Len(calls) : calls[c].kind = "statistics"
  /\ \A c \in 1..Len(calls) : calls[c].requestId.t = calls[1].requestId.t
  /\ workersMade >= 2

\* The response is of a success type.
SuccessType(m) == m.type \in {"CLIMATE_DATA_PROCESSED", "STATISTICS_CALCULATED"}

IsMalformedSuccess(m) ==
  \/ m.type = "CLIMATE_DATA_PROCESSED" /\ MapHas(processingRequests, m.requestId)
       /\ (~m.hasData \/ ~m.hasStats)
  \/ m.type = "STATISTICS_CALCULATED" /\ MapHas(statisticsRequests, m.requestId)
       /\ ~m.hasStats

\* C16: when handleWorkerMessage handles a malformed success response for a
\* pending request, the entry is removed and the promise is rejected.
C16_MalformedSuccessRejects ==
  [][(handleWorkerMessage /\ IsMalformedSuccess(NextResponse))
       => LET m == NextResponse
              c == PendingCall(m.requestId)
          IN /\ ~MapHas(processingRequests', m.requestId)
             /\ ~MapHas(statisticsRequests', m.requestId)
             /\ calls'[c].promise = "rejected"]_vars

\* ----------------------------------------------------- properties: the worker
\* The response the worker has posted last.
NewResponse == outbox'[Len(outbox')].msg

KnownRequestType(msg) == msg.type \in {"PROCESS_CLIMATE_DATA", "CALCULATE_STATISTICS"}

\* C17: the worker answers a request of a type other than
\* PROCESS_CLIMATE_DATA and CALCULATE_STATISTICS with an ERROR response that
\* carries the requestId of the request and the text "Unknown message type: "
\* followed by the type; the requests behind it stay queued, and a request of
\* a known type handled after an ERROR response gets its success response.
C17_UnknownTypeAnswered ==
  [][WorkerStep
       => /\ ~KnownRequestType(Head(inbox))
               => /\ NewResponse.type = "ERROR"
                  /\ NewResponse.requestId = Head(inbox).requestId
                  /\ NewResponse.error = "Unknown message type: " \o Head(inbox).type
                  /\ inbox' = Tail(inbox)
                  /\ worker' = worker
          /\ KnownRequestType(Head(inbox))
               => /\ NewResponse.type \in {"CLIMATE_DATA_PROCESSED", "STATISTICS_CALCULATED"}
                  /\ NewResponse.requestId = Head(inbox).requestId]_vars

\* The worker answered a PING with the ERROR response and then a
\* PROCESS_CLIMATE_DATA request with the processed data.
C17_Witness ==
  /\ Len(outbox) >= 2
  /\ outbox[1].msg.type = "ERROR"
  /\ outbox[1].msg.error = "Unknown message type: PING"
  /\ outbox[1].msg.requestId = [n |-> 2, t |-> 0]
  /\ outbox[2].msg.type = "CLIMATE_DATA_PROCESSED"
  /\ outbox[2].msg.requestId = [n |-> 1, t |-> 0]

\* The identifiers of the requests received: of those answered, in the order
\* of the responses, then of those queued.
Received ==
  [i \in 1..Len(outbox) |-> outbox[i].msg.requestId]
    \o [i \in 1..Len(inbox) |-> inbox[i].requestId]

\* C18: every step of the worker takes one request and emits one response,
\* after the responses emitted before, with the requestId of the oldest
\* request queued: the responses answer the requests one for one in the
\* order they were received, which only grows at its end.
C18_OneResponsePerRequestInOrder ==
  [][/\ WorkerStep
          => /\ Len(outbox') = Len(outbox) + 1
             /\ Len(inbox') = Len(inbox) - 1
             /\ SubSeq(outbox', 1, Len(outbox)) = outbox
             /\ Received' = Received
     /\ \/ Received' = Received
        \/ Len(Received') = Len(Received) + 1
             /\ SubSeq(Received', 1, Len(Received)) = Received]_vars

\* Three requests with the identifiers 1, 2, 1 were answered in that order.
C18_Witness ==
  /\ inbox = << >>
  /\ Len(outbox) = 3
  /\ outbox[1].msg.requestId.n = 1
  /\ outbox[2].msg.requestId.n = 2
  /\ outbox[3].msg.requestId.n = 1
  /\ outbox[1].msg.type # outbox[3].msg.type

\* ------------------------------------------------------ properties: parsing
\* C19: the markers parsed from the sample array of a decade are
\* floor(length / 3) points, the i-th made of the i-th three values in source
\* order, so that a trailing incomplete triple adds nothing and points with a
\* zero delta are kept; parsing raises no error.
C19_ParseTriples ==
  initPc # "start"
    => LET samples == SamplesOf("1910")
       IN /\ ~threw
          /\ Len(markers) = Len(samples) \div 3
          /\ \A i \in 1..Len(markers) :
               markers[i] = [lat |-> samples[3 * i - 2], lon |-> samples[3 * i - 1],
                             delta |-> samples[3 * i]]

\* An array of seven values was parsed into two points, one of them with a
\* zero delta: the seventh value was skipped.
C19_Witness ==
  /\ initPc # "start"
  /\ Len(SamplesOf("1910")) = 7
  /\ Len(markers) = 2
  /\ markers[1].delta = 0
  /\ markers[2].delta # 0

\* --------------------------------------------------- properties: statistics
RECURSIVE SumOfDeltas(_)
SumOfDeltas(pts) ==
  IF pts = << >> THEN 0 ELSE pts[1].delta + SumOfDeltas(Tail(pts))

\* C20: for a non-empty list, the statistics are count = the number of
\* points, minDelta and maxDelta = the smallest and the largest delta of the
\* list, avgDelta = the sum of the deltas over count, nonZeroCount = the
\* number of points with a non-zero delta; for the empty list the five
\* fields are 0; the response is never an error.
C20_StatisticsOfList ==
  [][(WorkerStep /\ Head(inbox).type = "CALCULATE_STATISTICS")
       => LET pts == Head(inbox).data
              deltas == {pts[i].delta : i \in 1..Len(pts)}
              stats == NewResponse.stats
          IN /\ NewResponse.type = "STATISTICS_CALCULATED"
             /\ NewResponse.hasStats
             /\ stats.count = Len(pts)
             /\ stats.nonZeroCount = Cardinality({i \in 1..Len(pts) : pts[i].delta # 0})
             /\ pts # << >>
                  => /\ stats.minDelta \in deltas
                     /\ \A d \in deltas : stats.minDelta <= d
                     /\ stats.maxDelta \in deltas
                     /\ \A d \in deltas : stats.maxDelta >= d
                     /\ stats.avgNum = SumOfDeltas(pts)
                     /\ stats.avgDen = Len(pts)
             /\ pts = << >>
                  => /\ stats.minDelta = 0 /\ stats.maxDelta = 0
                     /\ stats.avgNum = 0 /\ stats.avgDen # 0]_vars

\* The statistics of four points, the smallest delta neither first nor last
\* and one delta zero: minDelta -0.3, maxDelta 0.5, avgDelta 0.7 / 4.
C20_Witness ==
  /\ Len(outbox) = 1
  /\ outbox[1].msg.type = "STATISTICS_CALCULATED"
  /\ outbox[1].msg.stats = [count |-> 4, minDelta |-> -3, maxDelta |-> 5,
                            avgNum |-> 7, avgDen |-> 4, nonZeroCount |-> 3]


\* ------------------------------------------------------ properties: markers
ColorOf(mesh) == matColor[mesh.material]

White == [kind |-> "rgb", h |-> 0, s |-> 0, l |-> 10]

\* C21: the colour of a marker is a function of its delta alone: pure white
\* at delta = 0; for delta > 0 hue 0.2139 - (delta / 1.619) * 0.5, saturation
\* 1.0, lightness 0.5; for delta < 0 hue 0.5111 - delta / 1.619, saturation
\* 1.0, lightness 0.6. With delta = d / 10 the hues are the fractions
\* (2139 * 1619 - 500000 d) and (5111 * 1619 - 1000000 d) over 10000 * 1619.
C21_ColorFromDeltaOnly ==
  /\ HueDen = 10000 * 1619
  /\ \A i \in 1..Len(children) :
       LET d == children[i].delta
           c == ColorOf(children[i])
       IN /\ d = 0 => c = White
          /\ d > 0 => /\ c.kind = "hsl"
                      /\ c.h = 2139 * 1619 - 500000 * d
                      /\ c.s = 10 /\ c.l = 5
          /\ d < 0 => /\ c.kind = "hsl"
                      /\ c.h = 5111 * 1619 - 1000000 * d
                      /\ c.s = 10 /\ c.l = 6
  /\ \A i, j \in 1..Len(children) :
       children[i].delta = children[j].delta
         => ColorOf(children[i]) = ColorOf(children[j])

\* A marker of delta 0 was created after markers already existed, next to a
\* cool one.
C21_Witness ==
  /\ Len(children) = 2
  /\ children[1].delta < 0
  /\ children[2].delta = 0
  /\ ColorOf(children[2]) = White

Magnitude(d) == IF d < 0 THEN -d ELSE d

\* C22: the height scale of a marker is max(|delta| * 150, 0.1) (in tenths:
\* max(|d| * 150, 1)): never below 0.1, equal for delta and -delta, and
\* non-decreasing in |delta|.
C22_HeightScale ==
  /\ \A i \in 1..Len(children) :
       LET d == children[i].delta
           sc == children[i].scaleY
       IN /\ sc >= 1
          /\ sc = IF Magnitude(d) * 150 >= 1 THEN Magnitude(d) * 150 ELSE 1
  /\ \A i, j \in 1..Len(children) :
       /\ children[i].delta = -children[j].delta
            => children[i].scaleY = children[j].scaleY
       /\ Magnitude(children[i].delta) <= Magnitude(children[j].delta)
            => children[i].scaleY <= children[j].scaleY

\* The floor applies to a marker of delta 0, next to one of delta -0.4 whose
\* scale is 60.
C22_Witness ==
  /\ Len(children) = 2
  /\ children[1].delta = 0 /\ children[1].scaleY = 1
  /\ children[2].delta = -4 /\ children[2].scaleY = 600

\* The square of (a + b*sqrt(3)) / 4, over 16.
SurdSquare(u) == Surd(u.a * u.a + 3 * u.b * u.b, 2 * u.a * u.b)

\* C27: a marker is placed at x = cos(lat) cos(lon) R, y = sin(lat) R,
\* z = cos(lat) sin(lon) R with R = 10 and lon the negated longitude, hence at
\* distance 10 from the origin, and its rotation is (0, -lon, lat - 90 deg),
\* on the grid of multiples of 30 degrees.
C27_MarkerPlacement ==
  \A i \in 1..Len(children) :
    LET m == children[i]
        p == MeshPosition(m)
        sx == SurdSquare(p.x)
        sy == SurdSquare(p.y)
        sz == SurdSquare(p.z)
    IN /\ p.x = Scaled(Times(Cos(m.lat), Cos(-m.lon)), 10)
       /\ p.y = Scaled(Sin(m.lat), 20)
       /\ p.z = Scaled(Times(Cos(m.lat), Sin(-m.lon)), 10)
       /\ sx.a + sy.a + sz.a = 16 * 10 * 10
       /\ sx.b + sy.b + sz.b = 0
       /\ MeshRotation(m) = [x |-> 0, y |-> m.lon, z |-> m.lat - 90]

\* A marker at latitude 60, longitude 120: x = -2.5, y = 5 sqrt(3),
\* z = -2.5 sqrt(3).
C27_Witness ==
  \E i \in 1..Len(children) :
    /\ children[i].lat = 60 /\ children[i].lon = 120
    /\ MeshPosition(children[i]) =
         [x |-> Surd(-10, 0), y |-> Surd(0, 20), z |-> Surd(0, -10)]


\* ------------------------------------------------------ properties: loading
\* Where Object.values puts the property inserted at position i of ps: index
\* keys first, by ascending index, then the other keys as inserted.
EnumerationPlace(ps, i) ==
  IF ps[i].key.index >= 0
  THEN 1 + Cardinality({j \in 1..Len(ps) :
                          ps[j].key.index >= 0 /\ ps[j].key.index < ps[i].key.index})
  ELSE Cardinality({j \in 1..Len(ps) : ps[j].key.index >= 0})
         + 1 + Cardinality({j \in 1..(i - 1) : ps[j].key.index < 0})

\* C23: loadData never throws to its caller: when the fetch fails, the status
\* is not OK or the body is no JSON, it returns the empty sequence; on success
\* it returns the JSON array as it is or, for a JSON object, the object's
\* values in enumeration order.
C23_LoadDataNeverThrows ==
  loader.op = "loadData" =>
    LET response == loader.response
        result == loader.result
    IN /\ ~result.threw
       /\ initPc # "failed"
       /\ data = [loaded |-> TRUE, entries |-> result.value]
       /\ (~response.fetched \/ ~response.ok \/ ~response.parses)
            => result.value = << >>
       /\ (response.parses /\ response.json.kind = "array")
            => result.value = response.json.items
       /\ (response.parses /\ response.json.kind = "object")
            => /\ Len(result.value) = Len(response.json.items)
               /\ \A i \in 1..Len(response.json.items) :
                    result.value[EnumerationPlace(response.json.items, i)]
                      = response.json.items[i].value

\* The status was 404 and the initialisation went on to its end with no data.
C23_Witness ==
  /\ loader.op = "loadData"
  /\ loader.response = HttpError(404)
  /\ data = [loaded |-> TRUE, entries |-> << >>]
  /\ initPc = "done"

IsFulfilled == loader.op = "loadTemperatureData" /\ ~loader.result.threw

IsRejected == loader.op = "loadTemperatureData" /\ loader.result.threw

\* The 0-based index of the first item of the payload that is null or whose
\* year or temperature is not a number, or -1.
FirstInvalid(items) ==
  LET bad == {i \in 1..Len(items) :
                \/ items[i].isNull
                \/ items[i].year.type # "number"
                \/ items[i].temperature.type # "number"}
  IN IF bad = {} THEN -1 ELSE (CHOOSE i \in bad : \A j \in bad : i <= j) - 1

\* C26: DataLoader.loadTemperatureData surfaces every failure by rejecting: a
\* non-OK status with 'HTTP error! status: <status>', a network failure with
\* the fetch error, a payload that is no array with 'Data must be an array', a
\* first invalid item whose year or temperature is not a number with 'Invalid
\* data format at index <i>' (a null item with the TypeError of reading its
\* year); it resolves only with the full list of validated items.
C26_LoaderRejectsEveryFailure ==
  loader.op = "loadTemperatureData" =>
    LET response == loader.response
        result == loader.result
        items == response.json.items
    IN /\ ~response.fetched => IsRejected /\ result.error = NetworkError
       /\ (response.fetched /\ ~response.ok)
            => /\ IsRejected
               /\ result.error.message
                    = (IF response.status = 404 THEN "HTTP error! status: 404"
                       ELSE "HTTP error! status: 500")
       /\ (response.ok /\ ~response.parses) => IsRejected /\ result.error = JsonError
       /\ (response.parses /\ response.json.kind # "array")
            => IsRejected /\ result.error.message = "Data must be an array"
       /\ (response.parses /\ response.json.kind = "array" /\ FirstInvalid(items) >= 0)
            => /\ IsRejected
               /\ ~items[FirstInvalid(items) + 1].isNull
                    => result.error.message
                         = "Invalid data format at index "
                             \o ToString(FirstInvalid(items))
               /\ items[FirstInvalid(items) + 1].isNull
                    => result.error.name = "TypeError"
       /\ IsFulfilled
            => /\ response.parses /\ response.json.kind = "array"
               /\ FirstInvalid(items) = -1
               /\ Len(result.value) = Len(items)
               /\ \A i \in 1..Len(items) :
                    /\ result.value[i].year = items[i].year
                    /\ result.value[i].temperature = items[i].temperature

\* Two valid items followed by one whose year is a string: rejected with the
\* message for index 2, nothing of the list being delivered.
C26_Witness ==
  /\ IsRejected
  /\ loader.response.parses
  /\ loader.response.json.kind = "array"
  /\ Len(loader.response.json.items) = 3
  /\ FirstInvalid(loader.response.json.items) = 2
  /\ loader.result.error.message = "Invalid data format at index 2"
  /\ loader.result.value = << >>


\* ------------------------------------------------ properties: empty dataset
EmptyDatasetLoaded == data = [loaded |-> TRUE, entries |-> << >>]

\* C24: with a dataset of zero entries, every decade activation (by the
\* initialisation, a manual selection or playback) ends without an error and
\* leaves no marker attached.
C24_EmptyDatasetActivations ==
  EmptyDatasetLoaded => /\ ~threw
                        /\ markers = << >>
                        /\ children = << >>

\* The initialisation ended, a selection was made and playback has just
\* activated a decade on the empty dataset.
C24_Witness ==
  /\ EmptyDatasetLoaded
  /\ initPc = "done"
  /\ clicks >= 1
  /\ last.op = "activate"
  /\ ~threw
  /\ children = << >>


\* ------------------------------------------------ properties: pooled resources
\* C28: after any sequence of decade switches, the colour of the material of
\* every attached marker is the colour of that marker's own delta; a recycled
\* material carries nothing over from the marker it served before.
C28_LiveMarkerColor ==
  \A i \in 1..Len(children) :
    matColor[children[i].material] = colorVal(children[i].delta)

\* Every material ever constructed is attached, and more markers were made
\* than materials: attached markers wear recycled materials.
C28_Witness ==
  /\ children # << >>
  /\ nextMesh > nextMat
  /\ Len(children) = nextMat
  /\ \E i \in 1..Len(children) : children[i].delta > 0
  /\ \E i \in 1..Len(children) : children[i].delta < 0

AttachedGeometries == {children[i].geometry : i \in 1..Len(children)}

AttachedMaterials == {children[i].material : i \in 1..Len(children)}

NoRepeats(seq) == \A i, j \in 1..Len(seq) : seq[i] = seq[j] => i = j

\* C29: a geometry or material is constructed only when its pool is empty and
\* a resource taken from a pool leaves it: in every state no geometry or
\* material is both pooled and attached, none is attached to two markers and
\* none is twice in its pool; a step that constructs one ends with the pool
\* empty.
C29_PoolsAndMarkersDisjoint ==
  /\ [](/\ Range(geometryPool) \cap AttachedGeometries = {}
        /\ Range(materialPool) \cap AttachedMaterials = {}
        /\ \A i, j \in 1..Len(children) :
             (children[i].geometry = children[j].geometry
                \/ children[i].material = children[j].material) => i = j
        /\ NoRepeats(geometryPool)
        /\ NoRepeats(materialPool))
  /\ [][/\ nextGeom' > nextGeom => geometryPool' = << >>
        /\ nextMat' > nextMat => materialPool' = << >>]_vars

\* Recycled geometries are attached while others wait in the pool.
C29_Witness ==
  /\ children # << >>
  /\ geometryPool # << >>
  /\ materialPool # << >>
  /\ nextMesh > nextGeom


\* ------------------------------------------------ properties: worker lifecycle
\* C30: a manager has at most one live worker: a worker is constructed only
\* when the reference is null (init() with a worker changes nothing, calls
\* made while the first one is suspended in init() construct no second
\* worker), the referenced worker is the latest constructed, the reference is
\* dropped only by terminate(), which terminates that worker, and stays null
\* until a later call constructs the next one.
C30_AtMostOneLiveWorker ==
  /\ [](worker = 0 \/ worker = workersMade)
  /\ [][/\ workersMade' # workersMade
             => /\ worker = 0
                /\ workersMade' = workersMade + 1
                /\ worker' = workersMade'
        /\ worker' # worker => (worker = 0 \/ worker' = 0)
        /\ (worker # 0 /\ worker' = 0) => terminate
        /\ terminate => worker' = 0
        /\ (worker = 0 /\ worker' # 0) => Len(calls') = Len(calls) + 1]_vars

\* The first call is suspended in init(), which constructed the worker; init()
\* was then called again and a third call was registered at once: one worker.
C30_Witness ==
  /\ microtasks = <<1>>
  /\ Len(calls) = 3
  /\ calls[2].kind = "init"
  /\ calls[3].pc = "registered"
  /\ worker = 1
  /\ workersMade = 1


\* ------------------------------------------------ properties: end of playback
RunIs(r, st) == Len(runs) >= r /\ runs[r].st = st

\* C25: a playback run goes from idle to running and back to idle: when the
\* updates of its timeline are delivered fairly, every run that started
\* running reaches progress 1 and ends, and an ended run never activates a
\* decade again (it does not change any more).
C25_RunsReturnToIdle ==
  /\ \A r \in PlayRuns :
       RunIs(r, "running") ~> (RunIs(r, "done") /\ runs[r].p = ProgressSteps)
  /\ [][\A r \in 1..Len(runs) :
          /\ runs[r].st = "done" => runs'[r] = runs[r]
          /\ runs'[r].st # runs[r].st
               => \/ runs[r].st = "loading" /\ runs'[r].st = "running"
                  \/ runs[r].st = "running" /\ runs'[r].st = "done"]_vars

\* A run ended at progress 1 after activating decades, the last update
\* activating none.
C25_Witness ==
  /\ RunIs(1, "done")
  /\ runs[1].p = ProgressSteps
  /\ runs[1].n >= 2
  /\ last.op = "update"


\* ------------------------------------------------ properties: promises settle
\* C31: every promise returned by processClimateData or calculateStatistics
\* is settled in the end, when suspended calls continue, the worker answers
\* every message posted to it and the responses are delivered.
C31_EveryPromiseSettles ==
  \A c \in SettleCalls :
    (Len(calls) >= c) ~> (Len(calls) >= c /\ calls[c].promise # "pending")


\* ------------------------------------------------ properties: quiescent states
\* The points of the attached markers, in the order of attachment.
ShownPoints ==
  [i \in 1..Len(children) |->
     [lat |-> children[i].lat, lon |-> children[i].lon, delta |-> children[i].delta]]

\* The non-zero points of the decade a label names, none if the label names
\* no decade that has samples.
DecadePoints(label) ==
  IF HasSamples(label) THEN SelectSeq(ParseFrom(SamplesOf(label)), NonZero) ELSE << >>

\* C32: in every state between two handlers, once the initialisation has
\* ended, the attached markers are exactly the non-zero points of the decade
\* the current year names.
C32_ShownIsCurrentDecade ==
  initPc = "done" => ShownPoints = DecadePoints(year)


\* ------------------------------------------------ properties: before the load
\* C33: a selection or a playback activation made before the dataset is
\* loaded ends without raising an error and leaves no marker attached.
C33_ActivationBeforeLoad ==
  ~data.loaded => /\ ~threw
                  /\ children = << >>


\* ------------------------------------------------ properties: pool sizes
\* C34: between handlers the geometry pool and the material pool hold the same
\* number of entries.
C34_PoolsSameSize == Len(geometryPool) = Len(materialPool)

\* After the cap was reached and resources were disposed, part of both pools
\* has been taken out again for the attached markers.
C34_Witness ==
  /\ children # << >>
  /\ Len(geometryPool) > 0
  /\ Len(geometryPool) < MAX_POOL_SIZE
  /\ Len(materialPool) = MAX_POOL_SIZE - Len(children)
  /\ geomDisposed # {}
  /\ matDisposed # {}


\* Geometries and materials constructed and not disposed.
LiveGeometries == nextGeom - Cardinality(geomDisposed)

LiveMaterials == nextMat - Cardinality(matDisposed)

\* The largest number of markers one rendering of a decade of the dataset
\* attaches: every batch is the non-zero points of one entry's samples.
LargestBatch ==
  IF ~data.loaded THEN 0
  ELSE LET sizes == {0} \cup
             { NonZeroPoints(data.entries[i].samples) :
                 i \in {j \in 1..Len(data.entries) :
                          data.entries[j].present /\ data.entries[j].hasSamples} }
       IN CHOOSE n \in sizes : \A m \in sizes : m <= n

\* C35: the geometries (and the materials) constructed and not disposed never
\* exceed max(MAX_POOL_SIZE, size of the largest batch ever attached), no
\* batch being larger than the largest decade of the dataset; and a disposed
\* geometry or material is neither attached to a marker nor in its pool.
C35_BoundedByLargestBatch ==
  /\ LiveGeometries <= Max(MAX_POOL_SIZE, LargestBatch)
  /\ LiveMaterials <= Max(MAX_POOL_SIZE, LargestBatch)
  /\ geomDisposed \cap (AttachedGeometries \cup Range(geometryPool)) = {}
  /\ matDisposed \cap (AttachedMaterials \cup Range(materialPool)) = {}


\* ------------------------------------------------ properties: the two parsers
\* C36: for every sample array, the points the worker's processClimateData
\* returns are, in the same order, the points of the main-thread parser whose
\* delta is not zero, and so the markers the page attaches for that array.
C36_WorkerEqualsFilteredParser ==
  \A k \in 1..Len(outbox) :
    /\ outbox[k].msg.type = "CLIMATE_DATA_PROCESSED"
    /\ outbox[k].msg.data = SelectSeq(markers, NonZero)
    /\ initPc = "done" => ShownPoints = outbox[k].msg.data

\* Seven samples: the parser made two points, the worker returned the one
\* whose delta is not zero, which is the marker attached.
C36_Witness ==
  /\ initPc = "done"
  /\ Len(SamplesOf("1910")) = 7
  /\ Len(markers) = 2
  /\ markers[1].delta = 0
  /\ Len(outbox) = 1
  /\ outbox[1].msg.data = <<markers[2]>>
  /\ Len(children) = 1


\* ------------------------------------------------ properties: end of the range
IsDecade(label) == \E i \in 1..Len(years) : years[i] = label

\* C37: a playback run never activates an index outside 0 .. years.length - 1,
\* so that while a run's timeline is in progress the index the run stands at
\* is one of years and the current year is one of the labels of years.
C37_YearIsDecadeDuringPlayback ==
  \A r \in 1..Len(runs) :
    /\ runs[r].currentIndex \in 0..(Len(years) - 1)
    /\ runs[r].st = "running" => IsDecade(year)


\* ----------------------------------------- properties: entries by position
\* The points of the entry at the position of the label in years, whatever
\* label that entry carries.
PositionPoints(label) ==
  LET i == IndexOf(years, label) + 1 IN
  IF i >= 1 /\ i <= Len(data.entries) /\ data.entries[i].present
      /\ data.entries[i].hasSamples
  THEN ParseFrom(data.entries[i].samples)
  ELSE << >>

\* C38: an activation of a label of years produces the points of the dataset
\* entry at the label's position in years, and a selection attaches those of
\* them that are not zero; the label the entry itself carries plays no part.
C38_EntryByPosition ==
  (data.loaded /\ last.op \in {"initLoad", "selectYear"} /\ IsDecade(year))
    => /\ markers = PositionPoints(year)
       /\ last.op = "selectYear" => ShownPoints = SelectSeq(PositionPoints(year), NonZero)

\* 1920 selected on a dataset whose second entry is labelled 1910 and whose
\* first entry is labelled 1920: the points shown are those of the second.
C38_Witness ==
  /\ last.op = "selectYear"
  /\ year = "1920"
  /\ data.entries = DataShuffled
  /\ data.entries[2].label = "1910"
  /\ data.entries[1].label = year
  /\ markers = ParseFrom(SamplesExample)
  /\ markers # ParseFrom(data.entries[1].samples)
  /\ Len(children) = 2


\* ------------------------------------------- properties: unknown responses
\* C39: handleWorkerMessage on a response whose requestId is in neither
\* pending map settles no promise and changes no state of the manager: the
\* calls, both maps, the worker, the counter and the posted messages stay as
\* they were; the response alone is consumed.
C39_UnknownResponseChangesNothing ==
  [][(handleWorkerMessage /\ ~IsPending(NextResponse.requestId))
       => /\ UNCHANGED <<calls, processingRequests, statisticsRequests>>
          /\ UNCHANGED <<worker, workersMade, requestIdCounter, microtasks, inbox>>
          /\ outbox' = Tail(outbox)]_vars

\* The only call was rejected by a worker error that cleared the maps, the
\* worker went on to answer its request, and that answer has been delivered
\* to an empty pair of maps: the promise has been settled exactly once.
C39_Witness ==
  /\ Len(calls) = 1
  /\ calls[1].pc = "registered"
  /\ calls[1].requestId # NoId
  /\ calls[1].promise = "rejected"
  /\ calls[1].value = ErrorValue("Worker error: message")
  /\ calls[1].settleCalls = 1
  /\ worker = 1 /\ workersMade = 1
  /\ inbox = << >> /\ outbox = << >>
  /\ processingRequests = EmptyMap /\ statisticsRequests = EmptyMap

=============================================================================
